---- MODULE Spec2Model ----
(***************************************************************************)
(* Model of the Move modules trade_apt::trade_apt                           *)
(* (my-aptos-dapp/contract/sources/trade_apt.move): the conditional-order  *)
(* ledger, its per-user accounts, the protocol statistics and the price    *)
(* alerts; and trade_apt::price_oracle (sources/price_oracle.move): the    *)
(* keepers and the price cache.                                            *)
(*                                                                         *)
(* Every entry function is one atomic action (a Move transaction either    *)
(* commits all its writes or aborts and writes nothing).  `last` records   *)
(* the most recent call: its arguments, its result and the ledger as it    *)
(* was just before the call.                                               *)
(*                                                                         *)
(* u64 values are modelled at the width U64Bits; every u64 addition and    *)
(* multiplication aborts the transaction on overflow, as in Move.          *)
(***************************************************************************)
EXTENDS Integers, Sequences, FiniteSets, TLC

VARIABLES
    initialized,    \* addresses holding a TradeAptState and an OrderBook
    state,          \* TradeAptState stored at @trade_apt
    order_book,     \* OrderBook stored at @trade_apt
    user_accounts,  \* address -> UserAccount (exists = FALSE: no resource)
    user_alerts,    \* address -> UserAlerts  (exists = FALSE: no resource)
    oracle_configs, \* address -> OracleConfig (exists = FALSE: no resource)
    alert_manager,  \* AlertManager of price_alert.move
    keeper_loop,    \* the keeper loop: its scan list, its reads, its submissions
    now,            \* timestamp::now_seconds()
    last            \* the most recent call, its result and its pre-state

vars ==
    <<initialized, state, order_book, user_accounts, user_alerts, oracle_configs,
      alert_manager, keeper_loop, now, last>>

\* the state outside trade_apt.move and price_oracle.move
other_modules == <<alert_manager, keeper_loop>>

-----------------------------------------------------------------------------
(* Bounds of the model *)

\* width of the unsigned integer type standing for u64
U64Bits == 25
\* most orders ever created
MaxOrders == 2
\* the clock runs from StartTime to MaxTime
MaxTime == 2
\* most advances of the clock the oracle is read under
MaxTicks == 2
\* most entries of the keeper list of an oracle
MaxKeepers == 2
\* most alerts ever created
MaxAlerts == 2
\* most orders, alerts and price feeds together when every module is in use
MaxRecords == 1
MaxLedger == 2

MAX_U64 == 2^U64Bits - 1
StartTime == 1

-----------------------------------------------------------------------------
(* Constants of trade_apt.move *)

E_NOT_INITIALIZED == 1
E_ALREADY_INITIALIZED == 2
E_INSUFFICIENT_BALANCE == 3
E_INVALID_AMOUNT == 4
E_ORDER_NOT_FOUND == 5
E_UNAUTHORIZED == 6
E_INVALID_CONDITION == 7
E_ORDER_EXPIRED == 8
E_SLIPPAGE_EXCEEDED == 9

CONDITION_PRICE_ABOVE == 1
CONDITION_PRICE_BELOW == 2
CONDITION_IMMEDIATE == 3

ORDER_STATUS_PENDING == 1
ORDER_STATUS_EXECUTED == 2
ORDER_STATUS_CANCELLED == 3
ORDER_STATUS_EXPIRED == 4

-----------------------------------------------------------------------------
(* Constants of price_oracle.move; its error codes carry the module's name
   because trade_apt.move gives other values to the same names *)

ORACLE_E_INVALID_PRICE == 2
ORACLE_E_UNAUTHORIZED == 3
MAX_PRICE_AGE == 60
PRICE_DECIMALS == 8

-----------------------------------------------------------------------------
(* Constants of price_alert.move *)

OPERATOR_LT == 0
OPERATOR_GT == 1
OPERATOR_EQ == 2
ERR_ALERT_NOT_FOUND == 1
ERR_INVALID_OPERATOR == 2
ERR_ALERT_INACTIVE == 3

-----------------------------------------------------------------------------
(* Addresses and inputs *)

TRADE_APT == "trade_apt"
USER1 == "0x2"
USER2 == "0x3"
Addr == {TRADE_APT, USER1, USER2}
\* signers of create_conditional_order and cancel_order
Users == {USER1, USER2}
\* signers of execute_conditional_order: USER2 owns some of the orders and is
\* a stranger to the others
Executors == {USER2}
\* signers of initialize
Initializers == {TRADE_APT}

CreateArgs(token_in, token_out, amount_in, min_amount_out, condition_type, target_price, duration_seconds) ==
    [token_in |-> token_in, token_out |-> token_out, amount_in |-> amount_in,
     min_amount_out |-> min_amount_out, condition_type |-> condition_type,
     target_price |-> target_price, duration_seconds |-> duration_seconds]

NoArgs == CreateArgs("", "", 0, 0, 0, 0, 0)

\* the create_conditional_order calls the model issues: <<signer, arguments>>.
\* Four are accepted (one of them with a min_amount_out of 85, above the 84
\* that calculate_swap_output(10) yields, one with an amount_in whose swap
\* output overflows, one with duration 0); five are rejected.
CreateCalls ==
    { <<USER1, CreateArgs("USDC", "APT", 20, 0, CONDITION_PRICE_BELOW, 700, 1)>>,
      <<USER1, CreateArgs("USDC", "APT", 10, 85, CONDITION_PRICE_BELOW, 700, 1)>>,
      <<USER2, CreateArgs("USDC", "ETH", 20, 0, CONDITION_PRICE_ABOVE, 700, 0)>>,
      <<USER2, CreateArgs("USDC", "ETH", MAX_U64, 0, CONDITION_PRICE_ABOVE, 700, 1)>>,
      <<USER1, CreateArgs("USDC", "APT", 0, 0, CONDITION_PRICE_BELOW, 700, 1)>>,
      <<USER2, CreateArgs("USDC", "APT", 0, 0, CONDITION_IMMEDIATE, 700, 1)>>,
      <<USER1, CreateArgs("USDC", "APT", 20, 0, CONDITION_IMMEDIATE, 700, 1)>>,
      <<USER2, CreateArgs("USDC", "APT", 20, 0, 5, 700, 1)>>,
      <<USER1, CreateArgs("USDC", "APT", 20, 0, CONDITION_PRICE_ABOVE, 700, MAX_U64)>> }

\* order ids passed to cancel and execute; an id is absent until the order
\* that gets it is created
OrderIds == 1 .. MaxOrders
\* prices passed to execute: below, at and above the target 700
Prices == {650, 700, 800}

-----------------------------------------------------------------------------
(* Results of a call *)

Ok == [kind |-> "ok", code |-> 0]
Abort(code) == [kind |-> "abort", code |-> code]
\* u64 overflow: the VM aborts the transaction
ArithmeticError == [kind |-> "arithmetic_error", code |-> 0]
\* borrow_global of a resource that does not exist
MissingData == [kind |-> "missing_data", code |-> 0]
\* move_to of a resource that already exists
ResourceAlreadyExists == [kind |-> "resource_already_exists", code |-> 0]

-----------------------------------------------------------------------------
(* u64 arithmetic: ok = FALSE when the VM aborts on overflow *)

U64Add(a, b) ==
    IF a > MAX_U64 - b THEN [ok |-> FALSE, value |-> 0]
    ELSE [ok |-> TRUE, value |-> a + b]

U64Mul(a, b) ==
    IF a # 0 /\ b > MAX_U64 \div a THEN [ok |-> FALSE, value |-> 0]
    ELSE [ok |-> TRUE, value |-> a * b]

-----------------------------------------------------------------------------
(* Helper functions of trade_apt.move *)

\* find_order: scan from index i; <<found, index>> with a 0-based index
RECURSIVE find_order_from(_, _, _)
find_order_from(orders, order_id, i) ==
    IF i < Len(orders)
    THEN IF orders[i + 1].order_id = order_id
         THEN <<TRUE, i>>
         ELSE find_order_from(orders, order_id, i + 1)
    ELSE <<FALSE, 0>>

\* mutant: the scan stops at the first order whenever the id is in the book
find_order_first(orders, order_id) ==
    IF find_order_from(orders, order_id, 0)[1] THEN <<TRUE, 0>> ELSE <<FALSE, 0>>

find_order(orders, order_id) == find_order_from(orders, order_id, 0)

\* the loop of get_pending_orders_count from index i with the count so far
RECURSIVE pending_count_from(_, _, _)
pending_count_from(orders, i, count) ==
    IF i < Len(orders)
    THEN pending_count_from(orders, i + 1,
             IF orders[i + 1].status = ORDER_STATUS_PENDING
             THEN count + 1 ELSE count)
    ELSE count

\* mutant: the count skips the orders that are past their expiry
get_pending_orders_count_unexpired ==
    Cardinality({i \in 1 .. Len(order_book.orders) :
                    /\ order_book.orders[i].status = ORDER_STATUS_PENDING
                    /\ now <= order_book.orders[i].expires_at})

get_pending_orders_count == pending_count_from(order_book.orders, 0, 0)

\* (amount_in * 850 * 997) / (100 * 1000), aborting on u64 overflow
calculate_swap_output(amount_in) ==
    LET m1 == U64Mul(amount_in, 850)
        m2 == U64Mul(m1.value, 997)
    IN  IF ~m1.ok \/ ~m2.ok THEN [ok |-> FALSE, value |-> 0]
        ELSE [ok |-> TRUE, value |-> m2.value \div (100 * 1000)]

\* mutant: the condition type is ignored, every order is treated as ABOVE
condition_met_always_above(condition_type, target_price, current_price) ==
    current_price >= target_price

\* mutant: the comparisons are strict, a price equal to the target does not
\* satisfy the condition
condition_met_strict(condition_type, target_price, current_price) ==
    IF condition_type = CONDITION_PRICE_BELOW
    THEN current_price < target_price
    ELSE current_price > target_price

\* the condition check of execute_conditional_order
condition_met(condition_type, target_price, current_price) ==
    IF condition_type = CONDITION_PRICE_BELOW
    THEN current_price <= target_price
    ELSE current_price >= target_price

-----------------------------------------------------------------------------
(* Resources *)

NewTradeAptState(admin_addr) ==
    [total_trades |-> 0, total_volume_apt |-> 0, total_orders_created |-> 0,
     admin |-> admin_addr]

NewOrderBook == [orders |-> <<>>, next_order_id |-> 1]

NoUserAccount ==
    [exists |-> FALSE, orders |-> <<>>, total_trades |-> 0, total_volume |-> 0,
     created_at |-> 0]

NoUserAlerts == [exists |-> FALSE, alerts |-> <<>>, next_alert_id |-> 1]

NoOracleConfig ==
    [exists |-> FALSE, admin |-> TRADE_APT, keepers |-> <<>>, price_cache |-> <<>>]

\* the AlertManager that init_module of price_alert.move stores at publication
NewAlertManager == [alerts |-> <<>>, next_alert_id |-> 1]

\* the keeper before its first cycle: no record left to look at, no
\* submission to dispatch, no submission refused
NewKeeper == [todo |-> {}, outbox |-> {}, failed |-> {}]

\* init_user_account: each resource is created only when it does not exist
init_user_account_accounts(accounts, user_addr) ==
    IF accounts[user_addr].exists THEN accounts
    ELSE [accounts EXCEPT ![user_addr] =
            [exists |-> TRUE, orders |-> <<>>, total_trades |-> 0,
             total_volume |-> 0, created_at |-> now]]

init_user_account_alerts(alerts, user_addr) ==
    IF alerts[user_addr].exists THEN alerts
    ELSE [alerts EXCEPT ![user_addr] =
            [exists |-> TRUE, alerts |-> <<>>, next_alert_id |-> 1]]

\* the ledger as a call finds it
Ledger ==
    [initialized |-> initialized, state |-> state, order_book |-> order_book,
     user_accounts |-> user_accounts, user_alerts |-> user_alerts,
     oracle_configs |-> oracle_configs, alert_manager |-> alert_manager,
     now |-> now]

\* a call on the resources stored under addr (an alert owner, an oracle)
CallAt(op, signer, addr, order_id, price, args, result) ==
    [op |-> op, signer |-> signer, addr |-> addr, order_id |-> order_id,
     price |-> price, args |-> args, result |-> result, pre |-> Ledger]

Call(op, signer, order_id, price, args, result) ==
    CallAt(op, signer, signer, order_id, price, args, result)

-----------------------------------------------------------------------------
(* Initial state: the module is published, initialize has not run *)

Init ==
    /\ initialized = {}
    /\ state = NewTradeAptState(TRADE_APT)
    /\ order_book = NewOrderBook
    /\ user_accounts = [a \in Addr |-> NoUserAccount]
    /\ user_alerts = [a \in Addr |-> NoUserAlerts]
    /\ oracle_configs = [a \in Addr |-> NoOracleConfig]
    /\ alert_manager = NewAlertManager
    /\ keeper_loop = NewKeeper
    /\ now = StartTime
    /\ last = [op |-> "none", signer |-> TRADE_APT, addr |-> TRADE_APT,
               order_id |-> 0, price |-> 0, args |-> NoArgs, result |-> Ok,
               pre |-> [initialized |-> {}, state |-> NewTradeAptState(TRADE_APT),
                        order_book |-> NewOrderBook,
                        user_accounts |-> [a \in Addr |-> NoUserAccount],
                        user_alerts |-> [a \in Addr |-> NoUserAlerts],
                        oracle_configs |-> [a \in Addr |-> NoOracleConfig],
                        alert_manager |-> NewAlertManager,
                        now |-> StartTime]]

-----------------------------------------------------------------------------
(* initialize *)

\* mutant: the exists assertion is missing, initialize stores a new state
\* whenever it is called
initialize_result_unguarded(admin_addr) == Ok

initialize_result(admin_addr) ==
    IF admin_addr \in initialized THEN Abort(E_ALREADY_INITIALIZED) ELSE Ok

initialize(admin) ==
    LET r == initialize_result(admin) IN
    /\ last' = Call("initialize", admin, 0, 0, NoArgs, r)
    /\ IF r = Ok
       THEN /\ initialized' = initialized \cup {admin}
            /\ state' = IF admin = TRADE_APT THEN NewTradeAptState(admin) ELSE state
            /\ order_book' = IF admin = TRADE_APT THEN NewOrderBook ELSE order_book
       ELSE UNCHANGED <<initialized, state, order_book>>
    /\ UNCHANGED <<user_accounts, user_alerts, oracle_configs, now, other_modules>>

-----------------------------------------------------------------------------
(* create_conditional_order *)

\* mutant: the amount_in > 0 assertion is missing
create_conditional_order_result_no_amount_check(user_addr, a) ==
    IF ~(a.condition_type = CONDITION_PRICE_ABOVE
         \/ a.condition_type = CONDITION_PRICE_BELOW)
    THEN Abort(E_INVALID_CONDITION)
    ELSE IF TRADE_APT \notin initialized THEN MissingData
    ELSE IF ~U64Add(now, a.duration_seconds).ok THEN ArithmeticError
    ELSE Ok

\* mutant: CONDITION_IMMEDIATE is accepted as well
create_conditional_order_result_immediate(user_addr, a) ==
    IF ~(a.amount_in > 0) THEN Abort(E_INVALID_AMOUNT)
    ELSE IF ~(a.condition_type = CONDITION_PRICE_ABOVE
              \/ a.condition_type = CONDITION_PRICE_BELOW
              \/ a.condition_type = CONDITION_IMMEDIATE)
    THEN Abort(E_INVALID_CONDITION)
    ELSE IF TRADE_APT \notin initialized THEN MissingData
    ELSE IF ~U64Add(now, a.duration_seconds).ok THEN ArithmeticError
    ELSE Ok

create_conditional_order_result(user_addr, a) ==
    IF ~(a.amount_in > 0) THEN Abort(E_INVALID_AMOUNT)
    ELSE IF ~(a.condition_type = CONDITION_PRICE_ABOVE
              \/ a.condition_type = CONDITION_PRICE_BELOW)
    THEN Abort(E_INVALID_CONDITION)
    ELSE IF TRADE_APT \notin initialized THEN MissingData
    ELSE IF ~U64Add(now, a.duration_seconds).ok THEN ArithmeticError
    ELSE IF ~U64Add(order_book.next_order_id, 1).ok THEN ArithmeticError
    ELSE IF ~U64Add(state.total_orders_created, 1).ok THEN ArithmeticError
    ELSE Ok

\* mutant: every order takes the id 1
NewOrder_first_id(user_addr, a) ==
    [order_id |-> 1,
     owner |-> user_addr,
     token_in |-> a.token_in,
     token_out |-> a.token_out,
     amount_in |-> a.amount_in,
     min_amount_out |-> a.min_amount_out,
     condition_type |-> a.condition_type,
     target_price |-> a.target_price,
     status |-> ORDER_STATUS_PENDING,
     created_at |-> now,
     expires_at |-> now + a.duration_seconds,
     executed_at |-> 0]

NewOrder(user_addr, a) ==
    [order_id |-> order_book.next_order_id,
     owner |-> user_addr,
     token_in |-> a.token_in,
     token_out |-> a.token_out,
     amount_in |-> a.amount_in,
     min_amount_out |-> a.min_amount_out,
     condition_type |-> a.condition_type,
     target_price |-> a.target_price,
     status |-> ORDER_STATUS_PENDING,
     created_at |-> now,
     expires_at |-> now + a.duration_seconds,
     executed_at |-> 0]

create_conditional_order(user, a) ==
    LET r == create_conditional_order_result(user, a)
        order_id == order_book.next_order_id
        accounts == init_user_account_accounts(user_accounts, user)
    IN
    /\ r = Ok => Len(order_book.orders) < MaxOrders
    /\ last' = Call("create", user, 0, 0, a, r)
    /\ IF r = Ok
       THEN /\ order_book' =
                  [orders |-> Append(order_book.orders, NewOrder(user, a)),
                   next_order_id |-> order_id + 1]
            /\ user_accounts' =
                  [accounts EXCEPT ![user].orders = Append(@, order_id)]
            /\ user_alerts' = init_user_account_alerts(user_alerts, user)
            /\ state' = [state EXCEPT !.total_orders_created = @ + 1]
       ELSE UNCHANGED <<order_book, user_accounts, user_alerts, state>>
    /\ UNCHANGED <<initialized, oracle_configs, now, other_modules>>

-----------------------------------------------------------------------------
(* cancel_order *)

\* mutant: the status == PENDING assertion is missing
cancel_order_result_any_status(user_addr, order_id) ==
    IF TRADE_APT \notin initialized THEN MissingData
    ELSE LET f == find_order(order_book.orders, order_id) IN
         IF ~f[1] THEN Abort(E_ORDER_NOT_FOUND)
         ELSE LET order == order_book.orders[f[2] + 1] IN
              IF ~(order.owner = user_addr) THEN Abort(E_UNAUTHORIZED)
              ELSE Ok

\* mutant: the status assertion comes before the owner assertion
cancel_order_result_status_first(user_addr, order_id) ==
    IF TRADE_APT \notin initialized THEN MissingData
    ELSE LET f == find_order(order_book.orders, order_id) IN
         IF ~f[1] THEN Abort(E_ORDER_NOT_FOUND)
         ELSE LET order == order_book.orders[f[2] + 1] IN
              IF ~(order.status = ORDER_STATUS_PENDING)
              THEN Abort(E_ORDER_NOT_FOUND)
              ELSE IF ~(order.owner = user_addr) THEN Abort(E_UNAUTHORIZED)
              ELSE Ok

\* mutant: an order past its expiry cannot be cancelled
cancel_order_result_unexpired_only(user_addr, order_id) ==
    IF TRADE_APT \notin initialized THEN MissingData
    ELSE LET f == find_order(order_book.orders, order_id) IN
         IF ~f[1] THEN Abort(E_ORDER_NOT_FOUND)
         ELSE LET order == order_book.orders[f[2] + 1] IN
              IF ~(order.owner = user_addr) THEN Abort(E_UNAUTHORIZED)
              ELSE IF ~(order.status = ORDER_STATUS_PENDING)
              THEN Abort(E_ORDER_NOT_FOUND)
              ELSE IF ~(now <= order.expires_at) THEN Abort(E_ORDER_EXPIRED)
              ELSE Ok

cancel_order_result(user_addr, order_id) ==
    IF TRADE_APT \notin initialized THEN MissingData
    ELSE LET f == find_order(order_book.orders, order_id) IN
         IF ~f[1] THEN Abort(E_ORDER_NOT_FOUND)
         ELSE LET order == order_book.orders[f[2] + 1] IN
              IF ~(order.owner = user_addr) THEN Abort(E_UNAUTHORIZED)
              ELSE IF ~(order.status = ORDER_STATUS_PENDING)
              THEN Abort(E_ORDER_NOT_FOUND)
              ELSE Ok

cancel_order(user, order_id) ==
    LET r == cancel_order_result(user, order_id)
        index == find_order(order_book.orders, order_id)[2]
    IN
    /\ last' = Call("cancel", user, order_id, 0, NoArgs, r)
    /\ IF r = Ok
       THEN order_book' =
              [order_book EXCEPT !.orders[index + 1].status = ORDER_STATUS_CANCELLED]
       ELSE UNCHANGED order_book
    /\ UNCHANGED <<initialized, state, user_accounts, user_alerts, oracle_configs, now, other_modules>>

-----------------------------------------------------------------------------
(* execute_conditional_order *)

\* mutant: the owner's volume is not updated
credit_user_account_trades_only(account, amount_in) ==
    [account EXCEPT !.total_trades = @ + 1]

\* lines 383-386: the owner's account after a successful execution
credit_user_account(account, amount_in) ==
    [account EXCEPT !.total_trades = @ + 1, !.total_volume = @ + amount_in]

\* mutant: the protocol trade counter is bumped twice
credit_state_twice(st, amount_in) ==
    [st EXCEPT !.total_trades = @ + 2, !.total_volume_apt = @ + amount_in]

\* mutant: the volume of a trade is taken off the protocol's volume
credit_state_volume_down(st, amount_in) ==
    [st EXCEPT !.total_trades = @ + 1, !.total_volume_apt = @ - amount_in]

\* lines 388-391: the protocol state after a successful execution
credit_state(st, amount_in) ==
    [st EXCEPT !.total_trades = @ + 1, !.total_volume_apt = @ + amount_in]

\* mutant: `status` selects which status check execute makes: "none" drops
\* the assertion, "not_executed" only rejects an EXECUTED order
execute_result_with_status_check(status_check, order_id, current_price) ==
    IF TRADE_APT \notin initialized THEN MissingData
    ELSE LET f == find_order(order_book.orders, order_id) IN
         IF ~f[1] THEN Abort(E_ORDER_NOT_FOUND)
         ELSE LET order == order_book.orders[f[2] + 1]
                  amount_out == calculate_swap_output(order.amount_in)
              IN
              IF /\ status_check = "not_executed"
                 /\ order.status = ORDER_STATUS_EXECUTED
              THEN Abort(E_ORDER_NOT_FOUND)
              ELSE IF ~(now <= order.expires_at) THEN Abort(E_ORDER_EXPIRED)
              ELSE IF ~condition_met(order.condition_type, order.target_price,
                                     current_price)
              THEN Abort(E_INVALID_CONDITION)
              ELSE IF ~amount_out.ok THEN ArithmeticError
              ELSE IF ~(amount_out.value >= order.min_amount_out)
              THEN Abort(E_SLIPPAGE_EXCEEDED)
              ELSE Ok

execute_conditional_order_result_no_status_check(order_id, current_price) ==
    execute_result_with_status_check("none", order_id, current_price)

execute_conditional_order_result_not_executed(order_id, current_price) ==
    execute_result_with_status_check("not_executed", order_id, current_price)

\* mutant: an order is already expired at the second of its expires_at
execute_conditional_order_result_expired_at_expiry(order_id, current_price) ==
    IF TRADE_APT \notin initialized THEN MissingData
    ELSE LET f == find_order(order_book.orders, order_id) IN
         IF ~f[1] THEN Abort(E_ORDER_NOT_FOUND)
         ELSE LET order == order_book.orders[f[2] + 1]
                  amount_out == calculate_swap_output(order.amount_in)
              IN
              IF ~(order.status = ORDER_STATUS_PENDING)
              THEN Abort(E_ORDER_NOT_FOUND)
              ELSE IF ~(now < order.expires_at) THEN Abort(E_ORDER_EXPIRED)
              ELSE IF ~condition_met(order.condition_type, order.target_price,
                                     current_price)
              THEN Abort(E_INVALID_CONDITION)
              ELSE IF ~amount_out.ok THEN ArithmeticError
              ELSE IF ~(amount_out.value >= order.min_amount_out)
              THEN Abort(E_SLIPPAGE_EXCEEDED)
              ELSE Ok

execute_conditional_order_result(order_id, current_price) ==
    IF TRADE_APT \notin initialized THEN MissingData
    ELSE LET f == find_order(order_book.orders, order_id) IN
         IF ~f[1] THEN Abort(E_ORDER_NOT_FOUND)
         ELSE LET order == order_book.orders[f[2] + 1]
                  amount_out == calculate_swap_output(order.amount_in)
                  account == user_accounts[order.owner]
              IN
              IF ~(order.status = ORDER_STATUS_PENDING)
              THEN Abort(E_ORDER_NOT_FOUND)
              ELSE IF ~(now <= order.expires_at) THEN Abort(E_ORDER_EXPIRED)
              ELSE IF ~condition_met(order.condition_type, order.target_price,
                                     current_price)
              THEN Abort(E_INVALID_CONDITION)
              ELSE IF ~amount_out.ok THEN ArithmeticError
              ELSE IF ~(amount_out.value >= order.min_amount_out)
              THEN Abort(E_SLIPPAGE_EXCEEDED)
              ELSE IF ~account.exists THEN MissingData
              ELSE IF \/ ~U64Add(account.total_trades, 1).ok
                      \/ ~U64Add(account.total_volume, order.amount_in).ok
                      \/ ~U64Add(state.total_trades, 1).ok
                      \/ ~U64Add(state.total_volume_apt, order.amount_in).ok
              THEN ArithmeticError
              ELSE Ok

\* mutant: only the owner of an order may execute it
execute_conditional_order_owner_only(executor, order_id, current_price) ==
    LET index == find_order(order_book.orders, order_id)[2]
        order == order_book.orders[index + 1]
        r == IF /\ TRADE_APT \in initialized
                /\ find_order(order_book.orders, order_id)[1]
                /\ order.owner # executor
             THEN Abort(E_UNAUTHORIZED)
             ELSE execute_conditional_order_result(order_id, current_price)
    IN
    /\ last' = Call("execute", executor, order_id, current_price, NoArgs, r)
    /\ IF r = Ok
       THEN /\ order_book' =
                  [order_book EXCEPT
                     !.orders[index + 1].status = ORDER_STATUS_EXECUTED,
                     !.orders[index + 1].executed_at = now]
            /\ user_accounts' =
                  [user_accounts EXCEPT ![order.owner] =
                     credit_user_account(@, order.amount_in)]
            /\ state' = credit_state(state, order.amount_in)
       ELSE UNCHANGED <<order_book, user_accounts, state>>
    /\ UNCHANGED <<initialized, user_alerts, oracle_configs, now, alert_manager>>

execute_conditional_order(executor, order_id, current_price) ==
    LET r == execute_conditional_order_result(order_id, current_price)
        index == find_order(order_book.orders, order_id)[2]
        order == order_book.orders[index + 1]
    IN
    /\ last' = Call("execute", executor, order_id, current_price, NoArgs, r)
    /\ IF r = Ok
       THEN /\ order_book' =
                  [order_book EXCEPT
                     !.orders[index + 1].status = ORDER_STATUS_EXECUTED,
                     !.orders[index + 1].executed_at = now]
            /\ user_accounts' =
                  [user_accounts EXCEPT ![order.owner] =
                     credit_user_account(@, order.amount_in)]
            /\ state' = credit_state(state, order.amount_in)
       ELSE UNCHANGED <<order_book, user_accounts, state>>
    /\ UNCHANGED <<initialized, user_alerts, oracle_configs, now, alert_manager>>

-----------------------------------------------------------------------------
(* The clock *)

AdvanceTime ==
    /\ now < MaxTime
    /\ now' = now + 1
    /\ UNCHANGED <<initialized, state, order_book, user_accounts, user_alerts,
                   oracle_configs, last, other_modules>>

-----------------------------------------------------------------------------
(* Specification: initialize, the three order calls and the clock *)

Initialize == \E admin \in Initializers : initialize(admin)
Create == \E c \in CreateCalls : create_conditional_order(c[1], c[2])
Cancel == \E user \in Users, order_id \in OrderIds : cancel_order(user, order_id)
Execute ==
    \E executor \in Executors, order_id \in OrderIds, price \in Prices :
        /\ execute_conditional_order(executor, order_id, price)
        /\ UNCHANGED keeper_loop

Next == Initialize \/ Create \/ Cancel \/ Execute \/ AdvanceTime

Spec == Init /\ [][Next]_vars

-----------------------------------------------------------------------------
(* Vocabulary of the properties *)

HasOrder(orders, order_id) ==
    \E i \in 1 .. Len(orders) : orders[i].order_id = order_id

OrderOf(orders, order_id) ==
    orders[CHOOSE i \in 1 .. Len(orders) : orders[i].order_id = order_id]

Terminal(status) ==
    status \in {ORDER_STATUS_EXECUTED, ORDER_STATUS_CANCELLED, ORDER_STATUS_EXPIRED}

\* the price satisfies the stored condition, as section 4.2 of the spec has it
Satisfies(order, price) ==
    \/ order.condition_type = CONDITION_PRICE_BELOW /\ price <= order.target_price
    \/ order.condition_type = CONDITION_PRICE_ABOVE /\ price >= order.target_price

\* the swap output of the order is computed without overflow and reaches
\* the order's min_amount_out
OutputAccepted(order) ==
    /\ order.amount_in <= MAX_U64 \div (850 * 997)
    /\ (order.amount_in * 850 * 997) \div 100000 >= order.min_amount_out

ExecutedOrders(orders, owners) ==
    {i \in 1 .. Len(orders) :
        orders[i].status = ORDER_STATUS_EXECUTED /\ orders[i].owner \in owners}

RECURSIVE SumAmountIn(_, _)
SumAmountIn(orders, indices) ==
    IF indices = {} THEN 0
    ELSE LET i == CHOOSE j \in indices : TRUE
         IN  orders[i].amount_in + SumAmountIn(orders, indices \ {i})

PendingOrders(orders) ==
    {i \in 1 .. Len(orders) : orders[i].status = ORDER_STATUS_PENDING}

\* the stats of the protocol and of every user are those before the last call
StatsAsBefore == state = last.pre.state /\ user_accounts = last.pre.user_accounts

\* the last call was cancel_order or execute_conditional_order on an order
\* that existed when it was made
LastOnOrder(op) ==
    /\ last.op = op
    /\ HasOrder(last.pre.order_book.orders, last.order_id)

\* this step is the call B made right after the call A recorded in `last`
\* (only clock ticks in between), both on the same order, which was PENDING
\* and unexpired when A was made and is unexpired when B is made
Race(opA, opB) ==
    /\ last.op = opA
    /\ last'.op = opB
    /\ now' = now
    /\ last'.order_id = last.order_id
    /\ HasOrder(last.pre.order_book.orders, last.order_id)
    /\ LET o == OrderOf(last.pre.order_book.orders, last.order_id) IN
       /\ o.status = ORDER_STATUS_PENDING
       /\ last.pre.now <= o.expires_at
       /\ now <= o.expires_at

RaceOrder == OrderOf(last.pre.order_book.orders, last.order_id)

-----------------------------------------------------------------------------
(* C1 *)

\* C1: the status of every order changes only from PENDING to EXECUTED or
\* from PENDING to CANCELLED, and a cancel_order or execute_conditional_order
\* on an order that is EXECUTED or CANCELLED fails and leaves every field of the
\* order as it was.
C1_StatusMonotonic ==
    /\ Len(order_book.orders) >= Len(last.pre.order_book.orders)
    /\ \A i \in 1 .. Len(last.pre.order_book.orders) :
          LET before == last.pre.order_book.orders[i]
              after == order_book.orders[i]
          IN  /\ \/ after.status = before.status
                 \/ /\ before.status = ORDER_STATUS_PENDING
                    /\ after.status \in {ORDER_STATUS_EXECUTED, ORDER_STATUS_CANCELLED}
              /\ ( /\ Terminal(before.status)
                   /\ last.op \in {"cancel", "execute"}
                   /\ last.order_id = before.order_id )
                 => (last.result # Ok /\ after = before)

\* the owner's cancel_order on an EXECUTED order has failed
C1_Witness ==
    /\ LastOnOrder("cancel")
    /\ LET o == OrderOf(last.pre.order_book.orders, last.order_id) IN
       /\ o.status = ORDER_STATUS_EXECUTED
       /\ o.owner = last.signer
    /\ last.result = Abort(E_ORDER_NOT_FOUND)

-----------------------------------------------------------------------------
(* C2 *)

\* C2 as the spec states it: of two execute_conditional_order calls with a
\* satisfying price on the same PENDING, unexpired order, the first succeeds and
\* the second fails with E_ORDER_NOT_FOUND; the order ends EXECUTED and the
\* owner's trade count and the protocol's grow by exactly 1.
C2_Original ==
    [][ ( /\ Race("execute", "execute")
          /\ Satisfies(RaceOrder, last.price)
          /\ Satisfies(RaceOrder, last'.price) )
        => ( /\ last.result = Ok
             /\ last'.result = Abort(E_ORDER_NOT_FOUND)
             /\ OrderOf(order_book'.orders, last.order_id).status
                  = ORDER_STATUS_EXECUTED
             /\ user_accounts'[RaceOrder.owner].total_trades
                  = last.pre.user_accounts[RaceOrder.owner].total_trades + 1
             /\ state'.total_trades = last.pre.state.total_trades + 1 ) ]_vars

\* C2, amended: the same, for an order whose swap output is computed without
\* overflow and is at least its min_amount_out.
C2_ExactlyOnce ==
    [][ ( /\ Race("execute", "execute")
          /\ Satisfies(RaceOrder, last.price)
          /\ Satisfies(RaceOrder, last'.price)
          /\ OutputAccepted(RaceOrder) )
        => ( /\ last.result = Ok
             /\ last'.result = Abort(E_ORDER_NOT_FOUND)
             /\ OrderOf(order_book'.orders, last.order_id).status
                  = ORDER_STATUS_EXECUTED
             /\ user_accounts'[RaceOrder.owner].total_trades
                  = last.pre.user_accounts[RaceOrder.owner].total_trades + 1
             /\ state'.total_trades = last.pre.state.total_trades + 1 ) ]_vars

\* a second execute, signed like the first by an address that is not the
\* owner, has lost the race: the first one executed the order at this very
\* second, and the price of the second satisfies the condition too
C2_Witness ==
    /\ LastOnOrder("execute")
    /\ last.result = Abort(E_ORDER_NOT_FOUND)
    /\ LET o == OrderOf(last.pre.order_book.orders, last.order_id) IN
       /\ o.status = ORDER_STATUS_EXECUTED
       /\ o.executed_at = last.pre.now
       /\ o.owner # last.signer
       /\ Satisfies(o, last.price)
       /\ last.pre.now <= o.expires_at
    /\ state.total_trades = 1

-----------------------------------------------------------------------------
(* C3 *)

\* the two orders of the race between the owner's cancel and an execute
CancelThenExecute(accepted) ==
    ( /\ Race("cancel", "execute")
      /\ last.signer = RaceOrder.owner
      /\ Satisfies(RaceOrder, last'.price)
      /\ accepted )
    => ( /\ last.result = Ok
         /\ last'.result = Abort(E_ORDER_NOT_FOUND)
         /\ OrderOf(order_book'.orders, last.order_id).status
              = ORDER_STATUS_CANCELLED
         /\ state' = last.pre.state
         /\ user_accounts' = last.pre.user_accounts )

ExecuteThenCancel(accepted) ==
    ( /\ Race("execute", "cancel")
      /\ last'.signer = RaceOrder.owner
      /\ Satisfies(RaceOrder, last.price)
      /\ accepted )
    => ( /\ last.result = Ok
         /\ last'.result = Abort(E_ORDER_NOT_FOUND)
         /\ OrderOf(order_book'.orders, last.order_id).status
              = ORDER_STATUS_EXECUTED
         /\ state'.total_trades = last.pre.state.total_trades + 1
         /\ user_accounts'[RaceOrder.owner].total_trades
              = last.pre.user_accounts[RaceOrder.owner].total_trades + 1 )

\* C3 as the spec states it: when the owner's cancel_order and an
\* execute_conditional_order with a satisfying price race on a PENDING, unexpired
\* order, the call that runs first succeeds and decides the final status
\* (CANCELLED or EXECUTED), the other call fails with E_ORDER_NOT_FOUND, and
\* the stats change only if the execute ran first.
C3_Original == [][CancelThenExecute(TRUE) /\ ExecuteThenCancel(TRUE)]_vars

\* C3, amended: the same, where the execute that runs first wins only for an
\* order whose swap output is computed without overflow and is at least its
\* min_amount_out.
C3_FirstWins ==
    [][ /\ CancelThenExecute(TRUE)
        /\ ExecuteThenCancel(OutputAccepted(RaceOrder)) ]_vars

\* the owner's cancel has lost the race against an execute
C3_Witness ==
    /\ LastOnOrder("cancel")
    /\ last.result = Abort(E_ORDER_NOT_FOUND)
    /\ LET o == OrderOf(last.pre.order_book.orders, last.order_id) IN
       /\ o.status = ORDER_STATUS_EXECUTED
       /\ o.executed_at = last.pre.now
       /\ o.owner = last.signer
    /\ state.total_trades = 1

-----------------------------------------------------------------------------
(* C4 *)

\* C4: with no direct swap, each user's total_trades is the number of the
\* user's EXECUTED orders and total_volume the sum of their amount_in, and the
\* protocol's total_trades and total_volume_apt are the same count and sum over
\* all orders.
C4_StatsMatchExecutedOrders ==
    /\ \A a \in Addr :
          /\ user_accounts[a].total_trades
               = Cardinality(ExecutedOrders(order_book.orders, {a}))
          /\ user_accounts[a].total_volume
               = SumAmountIn(order_book.orders, ExecutedOrders(order_book.orders, {a}))
    /\ state.total_trades = Cardinality(ExecutedOrders(order_book.orders, Addr))
    /\ state.total_volume_apt
         = SumAmountIn(order_book.orders, ExecutedOrders(order_book.orders, Addr))

\* a second execute of an EXECUTED order has failed, and another order of
\* another owner is EXECUTED too
C4_Witness ==
    /\ LastOnOrder("execute")
    /\ last.result = Abort(E_ORDER_NOT_FOUND)
    /\ OrderOf(order_book.orders, last.order_id).status = ORDER_STATUS_EXECUTED
    /\ Cardinality(ExecutedOrders(order_book.orders, {USER1})) = 1
    /\ Cardinality(ExecutedOrders(order_book.orders, {USER2})) = 1

-----------------------------------------------------------------------------
(* C5 *)

\* C5: cancel_order by an address that is not the owner of an existing order
\* fails with E_UNAUTHORIZED, whatever the status of the order, and changes
\* nothing.
C5_NonOwnerCancelUnauthorized ==
    ( /\ LastOnOrder("cancel")
      /\ OrderOf(last.pre.order_book.orders, last.order_id).owner # last.signer )
    => ( /\ last.result = Abort(E_UNAUTHORIZED)
         /\ order_book = last.pre.order_book
         /\ StatsAsBefore )

\* a non-owner's cancel of an EXECUTED order has failed as unauthorized
C5_Witness ==
    /\ LastOnOrder("cancel")
    /\ LET o == OrderOf(last.pre.order_book.orders, last.order_id) IN
       /\ o.owner # last.signer
       /\ o.status = ORDER_STATUS_EXECUTED
    /\ last.result = Abort(E_UNAUTHORIZED)

-----------------------------------------------------------------------------
(* C6 *)

\* C6: get_pending_orders_count() is the number of stored orders whose status
\* is PENDING, whatever the clock; a successful create raises it by 1, a
\* successful cancel or execute lowers it by 1, and nothing else changes it.
C6_PendingCount ==
    /\ get_pending_orders_count = Cardinality(PendingOrders(order_book.orders))
    /\ get_pending_orders_count
         = pending_count_from(last.pre.order_book.orders, 0, 0)
           + (IF last.op = "create" /\ last.result = Ok THEN 1 ELSE 0)
           - (IF last.op \in {"cancel", "execute"} /\ last.result = Ok THEN 1 ELSE 0)

\* after a successful cancel, one order is still counted although it is past
\* its expiry
C6_Witness ==
    /\ last.op = "cancel"
    /\ last.result = Ok
    /\ get_pending_orders_count = 1
    /\ \E i \in PendingOrders(order_book.orders) :
          now > order_book.orders[i].expires_at

-----------------------------------------------------------------------------
(* C7 *)

\* C7: execute_conditional_order on a PENDING, unexpired order with a price
\* that does not satisfy the stored condition fails with E_INVALID_CONDITION;
\* the order stays PENDING with executed_at = 0 and no stats change.
C7_ConditionNotMet ==
    ( /\ LastOnOrder("execute")
      /\ LET o == OrderOf(last.pre.order_book.orders, last.order_id) IN
         /\ o.status = ORDER_STATUS_PENDING
         /\ last.pre.now <= o.expires_at
         /\ ~Satisfies(o, last.price) )
    => ( /\ last.result = Abort(E_INVALID_CONDITION)
         /\ OrderOf(order_book.orders, last.order_id).status = ORDER_STATUS_PENDING
         /\ OrderOf(order_book.orders, last.order_id).executed_at = 0
         /\ order_book = last.pre.order_book
         /\ StatsAsBefore )

\* a BELOW order with target 700 was not executed at the price 800
C7_Witness ==
    /\ LastOnOrder("execute")
    /\ last.price = 800
    /\ last.result = Abort(E_INVALID_CONDITION)
    /\ LET o == OrderOf(order_book.orders, last.order_id) IN
       /\ o.condition_type = CONDITION_PRICE_BELOW
       /\ o.target_price = 700
       /\ o.status = ORDER_STATUS_PENDING
       /\ last.pre.now <= o.expires_at

-----------------------------------------------------------------------------
(* C8 *)

\* C8: a successful execute_conditional_order sets the order EXECUTED with
\* executed_at the time of the call and changes nothing else of it, adds 1 and
\* amount_in to the owner's total_trades and total_volume and to the
\* protocol's total_trades and total_volume_apt.
C8_ExecuteEffect ==
    ( last.op = "execute" /\ last.result = Ok )
    => /\ HasOrder(last.pre.order_book.orders, last.order_id)
       /\ LET before == OrderOf(last.pre.order_book.orders, last.order_id)
              after == OrderOf(order_book.orders, last.order_id)
              owner_before == last.pre.user_accounts[before.owner]
              owner_after == user_accounts[before.owner]
          IN  /\ after = [before EXCEPT !.status = ORDER_STATUS_EXECUTED,
                                        !.executed_at = last.pre.now]
              /\ owner_after.total_trades = owner_before.total_trades + 1
              /\ owner_after.total_volume = owner_before.total_volume + before.amount_in
              /\ state.total_trades = last.pre.state.total_trades + 1
              /\ state.total_volume_apt
                   = last.pre.state.total_volume_apt + before.amount_in

\* the spec's scenario: the only order is BELOW 700 with amount_in 20 and
\* min_amount_out 0, executed at 650 by another address; its owner has one
\* trade of volume 20 and no order is pending
C8_Witness ==
    /\ last.op = "execute"
    /\ last.result = Ok
    /\ last.price = 650
    /\ Len(order_book.orders) = 1
    /\ LET o == order_book.orders[1] IN
       /\ o.condition_type = CONDITION_PRICE_BELOW
       /\ o.target_price = 700
       /\ o.amount_in = 20
       /\ o.min_amount_out = 0
       /\ o.owner # last.signer
       /\ o.status = ORDER_STATUS_EXECUTED
       /\ user_accounts[o.owner].total_trades = 1
       /\ user_accounts[o.owner].total_volume = 20
    /\ get_pending_orders_count = 0

-----------------------------------------------------------------------------
(* C9 *)

\* C9: create_conditional_order with amount_in = 0 fails with E_INVALID_AMOUNT
\* and changes nothing (no order, next_order_id and total_orders_created as
\* before); every stored order has amount_in > 0.
C9_ZeroAmountRejected ==
    /\ ( last.op = "create" /\ last.args.amount_in = 0 )
       => ( /\ last.result = Abort(E_INVALID_AMOUNT)
            /\ order_book = last.pre.order_book
            /\ state = last.pre.state
            /\ user_accounts = last.pre.user_accounts
            /\ user_alerts = last.pre.user_alerts )
    /\ \A i \in 1 .. Len(order_book.orders) : order_book.orders[i].amount_in > 0

\* a create with amount_in = 0 and a valid condition type has failed on a
\* ledger that holds an order
C9_Witness ==
    /\ last.op = "create"
    /\ last.args.amount_in = 0
    /\ last.args.condition_type = CONDITION_PRICE_BELOW
    /\ last.result = Abort(E_INVALID_AMOUNT)
    /\ Len(order_book.orders) = 1
    /\ order_book.next_order_id = 2
    /\ state.total_orders_created = 1

-----------------------------------------------------------------------------
(* C10 *)

ValidConditionType(condition_type) ==
    condition_type \in {CONDITION_PRICE_ABOVE, CONDITION_PRICE_BELOW}

\* C10 as the spec states it: create_conditional_order with a condition type
\* other than ABOVE and BELOW fails with E_INVALID_CONDITION and creates no
\* record.
C10_Original ==
    ( last.op = "create" /\ ~ValidConditionType(last.args.condition_type) )
    => ( /\ last.result = Abort(E_INVALID_CONDITION)
         /\ order_book = last.pre.order_book )

\* C10, amended: create_conditional_order with a condition type other than
\* ABOVE and BELOW fails and creates no record, with E_INVALID_CONDITION when
\* amount_in > 0 and with E_INVALID_AMOUNT when amount_in = 0; every stored
\* order has condition type ABOVE or BELOW.
C10_InvalidConditionRejected ==
    /\ ( last.op = "create" /\ ~ValidConditionType(last.args.condition_type) )
       => ( /\ last.result = IF last.args.amount_in > 0
                             THEN Abort(E_INVALID_CONDITION)
                             ELSE Abort(E_INVALID_AMOUNT)
            /\ order_book = last.pre.order_book
            /\ state = last.pre.state
            /\ user_accounts = last.pre.user_accounts
            /\ user_alerts = last.pre.user_alerts )
    /\ \A i \in 1 .. Len(order_book.orders) :
          ValidConditionType(order_book.orders[i].condition_type)

\* a create with CONDITION_IMMEDIATE and amount_in > 0 has failed on a ledger
\* that holds an order
C10_Witness ==
    /\ last.op = "create"
    /\ last.args.condition_type = CONDITION_IMMEDIATE
    /\ last.args.amount_in > 0
    /\ last.result = Abort(E_INVALID_CONDITION)
    /\ Len(order_book.orders) = 1

-----------------------------------------------------------------------------
(* price_oracle.move: inputs *)

\* signers of the oracle's initialize
OracleAdmins == {TRADE_APT}
\* the oracle_addr argument of update_price and batch_update_prices
OracleAddrs == {TRADE_APT}
\* signers of add_keeper, update_price and batch_update_prices: the admin and
\* an address that is a keeper only once add_keeper has listed it
OracleSigners == {TRADE_APT, USER1}
\* the new_keeper argument of add_keeper
NewKeepers == {USER1}
Tokens == {"APT", "BTC"}
UpdatePrices == {0, 650, 800}
Confidences == {10}

Batch(tokens, prices, confidences) ==
    [tokens |-> tokens, prices |-> prices, confidences |-> confidences]

\* the vectors handed to batch_update_prices: empty, valid, one token twice,
\* a zero price after a valid element, and the two length mismatches
Batches ==
    { Batch(<<>>, <<>>, <<>>),
      Batch(<<"APT", "BTC">>, <<650, 800>>, <<10, 10>>),
      Batch(<<"APT", "APT">>, <<650, 800>>, <<10, 10>>),
      Batch(<<"APT", "BTC">>, <<800, 0>>, <<10, 10>>),
      Batch(<<"APT">>, <<650, 800>>, <<10>>),
      Batch(<<"APT">>, <<650>>, <<>>) }

-----------------------------------------------------------------------------
(* price_oracle.move: helpers and views *)

PriceData(price, confidence, timestamp) ==
    [price |-> price, confidence |-> confidence, timestamp |-> timestamp,
     expo |-> PRICE_DECIMALS]

NewOracleConfig(admin_addr) ==
    [exists |-> TRUE, admin |-> admin_addr, keepers |-> <<admin_addr>>,
     price_cache |-> <<>>]

\* the loop of is_keeper from index i
RECURSIVE is_keeper_from(_, _, _)
is_keeper_from(keepers, addr, i) ==
    IF i < Len(keepers)
    THEN IF keepers[i + 1] = addr THEN TRUE ELSE is_keeper_from(keepers, addr, i + 1)
    ELSE FALSE

is_keeper(config, addr) == is_keeper_from(config.keepers, addr, 0)

\* the loop of find_feed from index i: <<found, index>>
RECURSIVE find_feed_from(_, _, _)
find_feed_from(price_cache, token, i) ==
    IF i < Len(price_cache)
    THEN IF price_cache[i + 1].token = token
         THEN <<TRUE, i>>
         ELSE find_feed_from(price_cache, token, i + 1)
    ELSE <<FALSE, 0>>

find_feed(config, token) == find_feed_from(config.price_cache, token, 0)

\* <<price, confidence, timestamp>>
get_price(config, token) ==
    LET f == find_feed(config, token) IN
    IF f[1]
    THEN LET price_data == config.price_cache[f[2] + 1].price_data IN
         <<price_data.price, price_data.confidence, price_data.timestamp>>
    ELSE <<0, 0, 0>>

is_price_fresh(config, token, current_time) ==
    LET last_update == get_price(config, token)[3] IN
    IF last_update = 0 THEN FALSE ELSE current_time - last_update <= MAX_PRICE_AGE

\* mutant: a price of exactly MAX_PRICE_AGE seconds is stale
get_price_safe_strict(config, token, current_time) ==
    LET p == get_price(config, token) IN
    [price |-> p[1],
     is_fresh |-> IF p[3] = 0 THEN FALSE ELSE current_time - p[3] < MAX_PRICE_AGE]

get_price_safe(config, token, current_time) ==
    LET p == get_price(config, token) IN
    [price |-> p[1],
     is_fresh |-> IF p[3] = 0 THEN FALSE ELSE current_time - p[3] <= MAX_PRICE_AGE]

-----------------------------------------------------------------------------
(* price_oracle.move: initialize and add_keeper *)

oracle_initialize_result(admin_addr) ==
    IF oracle_configs[admin_addr].exists THEN ResourceAlreadyExists ELSE Ok

oracle_initialize(admin) ==
    LET r == oracle_initialize_result(admin) IN
    /\ last' = Call("oracle_initialize", admin, 0, 0, NoArgs, r)
    /\ oracle_configs' =
           IF r = Ok
           THEN [oracle_configs EXCEPT ![admin] = NewOracleConfig(admin)]
           ELSE oracle_configs
    /\ UNCHANGED <<initialized, state, order_book, user_accounts, user_alerts, now, other_modules>>

\* the config is the one stored under the signer's own address
add_keeper_result(admin_addr) ==
    LET config == oracle_configs[admin_addr] IN
    IF ~config.exists THEN MissingData
    ELSE IF config.admin # admin_addr THEN Abort(ORACLE_E_UNAUTHORIZED)
    ELSE Ok

\* mutant: one config for the module, stored under @trade_apt, to which any
\* signer may add a keeper
add_keeper_at_module(admin, new_keeper) ==
    LET r == IF oracle_configs[TRADE_APT].exists THEN Ok ELSE MissingData IN
    /\ r = Ok => Len(oracle_configs[TRADE_APT].keepers) < MaxKeepers
    /\ last' = CallAt("add_keeper", admin, new_keeper, 0, 0, NoArgs, r)
    /\ oracle_configs' =
           IF r = Ok
           THEN [oracle_configs EXCEPT ![TRADE_APT].keepers = Append(@, new_keeper)]
           ELSE oracle_configs
    /\ UNCHANGED <<initialized, state, order_book, user_accounts, user_alerts, now, other_modules>>

add_keeper(admin, new_keeper) ==
    LET r == add_keeper_result(admin) IN
    /\ r = Ok => Len(oracle_configs[admin].keepers) < MaxKeepers
    /\ last' = CallAt("add_keeper", admin, new_keeper, 0, 0, NoArgs, r)
    /\ oracle_configs' =
           IF r = Ok
           THEN [oracle_configs EXCEPT ![admin].keepers = Append(@, new_keeper)]
           ELSE oracle_configs
    /\ UNCHANGED <<initialized, state, order_book, user_accounts, user_alerts, now, other_modules>>

-----------------------------------------------------------------------------
(* price_oracle.move: update_price *)

\* mutant: the keeper assertion is missing
update_price_result_no_keeper_check(config, keeper_addr, price) ==
    IF ~config.exists THEN MissingData
    ELSE IF price = 0 THEN Abort(ORACLE_E_INVALID_PRICE)
    ELSE Ok

update_price_result(config, keeper_addr, price) ==
    IF ~config.exists THEN MissingData
    ELSE IF ~is_keeper(config, keeper_addr) THEN Abort(ORACLE_E_UNAUTHORIZED)
    ELSE IF price = 0 THEN Abort(ORACLE_E_INVALID_PRICE)
    ELSE Ok

\* mutant: the cache is replaced by the entry written
update_price_config_single(config, token, price, confidence, current_time) ==
    [config EXCEPT !.price_cache =
         <<[token |-> token,
            price_data |-> PriceData(price, confidence, current_time),
            pyth_feed_id |-> <<>>, is_active |-> TRUE]>>]

\* the write of update_price: the feed found is overwritten, else one is added
update_price_config(config, token, price, confidence, current_time) ==
    LET f == find_feed(config, token)
        price_data == PriceData(price, confidence, current_time)
    IN  IF f[1]
        THEN [config EXCEPT !.price_cache[f[2] + 1].price_data = price_data]
        ELSE [config EXCEPT !.price_cache =
                 Append(@, [token |-> token, price_data |-> price_data,
                            pyth_feed_id |-> <<>>, is_active |-> TRUE])]

UpdateArgs(token, price, confidence) ==
    [token |-> token, price |-> price, confidence |-> confidence]

update_price(keeper, oracle_addr, token, price, confidence) ==
    LET config == oracle_configs[oracle_addr]
        r == update_price_result(config, keeper, price)
    IN  /\ last' = CallAt("update_price", keeper, oracle_addr, 0, price,
                          UpdateArgs(token, price, confidence), r)
        /\ oracle_configs' =
               IF r = Ok
               THEN [oracle_configs EXCEPT ![oracle_addr] =
                        update_price_config(config, token, price, confidence, now)]
               ELSE oracle_configs
        /\ UNCHANGED <<initialized, state, order_book, user_accounts, user_alerts,
                       now, other_modules>>

-----------------------------------------------------------------------------
(* price_oracle.move: batch_update_prices *)

\* mutant: an element that update_price refuses is skipped and the loop goes on
RECURSIVE batch_update_prices_from_skip_invalid(_, _, _, _, _)
batch_update_prices_from_skip_invalid(config, keeper_addr, batch, current_time, i) ==
    IF i < Len(batch.tokens)
    THEN LET r == update_price_result(config, keeper_addr, batch.prices[i + 1]) IN
         batch_update_prices_from_skip_invalid(
             IF r = Ok
             THEN update_price_config(config, batch.tokens[i + 1], batch.prices[i + 1],
                                      batch.confidences[i + 1], current_time)
             ELSE config,
             keeper_addr, batch, current_time, i + 1)
    ELSE [result |-> Ok, config |-> config]

\* the loop of batch_update_prices from index i: each round is one call of
\* update_price, and the first one that aborts ends the loop
RECURSIVE batch_update_prices_from(_, _, _, _, _)
batch_update_prices_from(config, keeper_addr, batch, current_time, i) ==
    IF i < Len(batch.tokens)
    THEN LET r == update_price_result(config, keeper_addr, batch.prices[i + 1]) IN
         IF r = Ok
         THEN batch_update_prices_from(
                  update_price_config(config, batch.tokens[i + 1], batch.prices[i + 1],
                                      batch.confidences[i + 1], current_time),
                  keeper_addr, batch, current_time, i + 1)
         ELSE [result |-> r, config |-> config]
    ELSE [result |-> Ok, config |-> config]

\* mutant: the writes made before the failing element stay
batch_update_prices_outcome_partial(configs, keeper_addr, oracle_addr, batch, current_time) ==
    IF Len(batch.tokens) # Len(batch.prices)
    THEN [result |-> Abort(ORACLE_E_INVALID_PRICE), configs |-> configs]
    ELSE IF Len(batch.tokens) # Len(batch.confidences)
    THEN [result |-> Abort(ORACLE_E_INVALID_PRICE), configs |-> configs]
    ELSE LET r == batch_update_prices_from(configs[oracle_addr], keeper_addr, batch,
                                           current_time, 0)
         IN  [result |-> r.result,
              configs |-> [configs EXCEPT ![oracle_addr] = r.config]]

\* the result of the transaction and the configs it leaves: an abort rolls
\* back the writes of the elements before it
batch_update_prices_outcome(configs, keeper_addr, oracle_addr, batch, current_time) ==
    IF Len(batch.tokens) # Len(batch.prices)
    THEN [result |-> Abort(ORACLE_E_INVALID_PRICE), configs |-> configs]
    ELSE IF Len(batch.tokens) # Len(batch.confidences)
    THEN [result |-> Abort(ORACLE_E_INVALID_PRICE), configs |-> configs]
    ELSE LET r == batch_update_prices_from(configs[oracle_addr], keeper_addr, batch,
                                           current_time, 0)
         IN  IF r.result = Ok
             THEN [result |-> Ok,
                   configs |-> [configs EXCEPT ![oracle_addr] = r.config]]
             ELSE [result |-> r.result, configs |-> configs]

batch_update_prices(keeper, oracle_addr, batch) ==
    LET out == batch_update_prices_outcome(oracle_configs, keeper, oracle_addr, batch,
                                           now)
    IN  /\ last' = CallAt("batch_update_prices", keeper, oracle_addr, 0, 0, batch,
                          out.result)
        /\ oracle_configs' = out.configs
        /\ UNCHANGED <<initialized, state, order_book, user_accounts, user_alerts,
                       now, other_modules>>

-----------------------------------------------------------------------------
(* The oracle's clock: it runs by seconds and by whole price ages, so that a
   price is read at an age of exactly MAX_PRICE_AGE and one second later *)

Ticks(t) == ((t - StartTime) \div MAX_PRICE_AGE) + ((t - StartTime) % MAX_PRICE_AGE)

OracleAdvanceTime ==
    \E d \in {1, MAX_PRICE_AGE} :
        /\ Ticks(now + d) <= MaxTicks
        /\ now' = now + d
        /\ UNCHANGED <<initialized, state, order_book, user_accounts, user_alerts,
                       oracle_configs, last, other_modules>>

-----------------------------------------------------------------------------
(* The oracle taken alone *)

OracleInitialize == \E admin \in OracleAdmins : oracle_initialize(admin)
AddKeeper ==
    \E admin \in OracleSigners, new_keeper \in NewKeepers : add_keeper(admin, new_keeper)
UpdatePrice ==
    \E keeper \in OracleSigners, oracle_addr \in OracleAddrs, token \in Tokens,
       price \in UpdatePrices, confidence \in Confidences :
        update_price(keeper, oracle_addr, token, price, confidence)
BatchUpdatePrices ==
    \E keeper \in OracleSigners, oracle_addr \in OracleAddrs, batch \in Batches :
        batch_update_prices(keeper, oracle_addr, batch)

NextOracle ==
    OracleInitialize \/ AddKeeper \/ UpdatePrice \/ BatchUpdatePrices \/ OracleAdvanceTime

SpecOracle == Init /\ [][NextOracle]_vars

-----------------------------------------------------------------------------
(* Vocabulary of the oracle's properties *)

HasFeed(config, token) == \E i \in DOMAIN config.price_cache : config.price_cache[i].token = token

FeedOf(config, token) ==
    config.price_cache[CHOOSE i \in DOMAIN config.price_cache :
                           config.price_cache[i].token = token]

\* the entries of every token but those of the set, as a set
OtherFeeds(config, tokens) ==
    {config.price_cache[i] : i \in {j \in DOMAIN config.price_cache :
                                        config.price_cache[j].token \notin tokens}}

\* the last index at which the batch lists the token
LastOccurrence(batch, token) ==
    CHOOSE i \in DOMAIN batch.tokens :
        /\ batch.tokens[i] = token
        /\ \A j \in DOMAIN batch.tokens : batch.tokens[j] = token => j <= i

Listed(batch) == {batch.tokens[i] : i \in DOMAIN batch.tokens}

LengthMismatch(batch) ==
    \/ Len(batch.tokens) # Len(batch.prices)
    \/ Len(batch.tokens) # Len(batch.confidences)

HasZeroPrice(batch) == \E i \in DOMAIN batch.prices : batch.prices[i] = 0

\* the last call wrote the token's price and nothing has written it since
LastWrote(oracle_addr, token) ==
    /\ last.result = Ok
    /\ last.addr = oracle_addr
    /\ \/ last.op = "update_price" /\ last.args.token = token
       \/ last.op = "batch_update_prices" /\ token \in Listed(last.args)

LastWrittenPrice(token) ==
    IF last.op = "update_price"
    THEN last.args.price
    ELSE last.args.prices[LastOccurrence(last.args, token)]

-----------------------------------------------------------------------------
\* C11: get_price_safe reports a token fresh exactly when the oracle has an
\* entry for it and the entry is at most MAX_PRICE_AGE (60) seconds old,
\* is_price_fresh returns the same boolean, and the price returned is the
\* one of the latest update of the token.
C11_FreshExactlyWithinMaxAge ==
    \A oracle_addr \in OracleAddrs, token \in Tokens :
        LET config == oracle_configs[oracle_addr]
            safe == get_price_safe(config, token, now)
        IN  config.exists =>
                /\ safe.is_fresh =
                       (/\ HasFeed(config, token)
                        /\ now - FeedOf(config, token).price_data.timestamp
                               <= MAX_PRICE_AGE)
                /\ is_price_fresh(config, token, now) = safe.is_fresh
                /\ LastWrote(oracle_addr, token) => safe.price = LastWrittenPrice(token)

\* a price is read at an age of exactly MAX_PRICE_AGE seconds, next to a
\* token that has no entry
C11_Witness ==
    \E oracle_addr \in OracleAddrs, token \in Tokens, other \in Tokens :
        LET config == oracle_configs[oracle_addr] IN
        /\ config.exists
        /\ HasFeed(config, token)
        /\ now - FeedOf(config, token).price_data.timestamp = MAX_PRICE_AGE
        /\ get_price_safe(config, token, now).is_fresh
        /\ ~HasFeed(config, other)
        /\ ~get_price_safe(config, other, now).is_fresh

-----------------------------------------------------------------------------
\* C12: update_price on an existing oracle is rejected with no write when the
\* signer is not a keeper (E_UNAUTHORIZED) or when the price is 0
\* (E_INVALID_PRICE); otherwise it inserts or overwrites exactly the entry of
\* the token with the given price, the given confidence and the current
\* time. Every cache entry has a price above 0 and every write was made by
\* an address that was a keeper when it wrote.
C12_UpdatePriceGuarded ==
    /\ \A oracle_addr \in OracleAddrs :
           \A i \in DOMAIN oracle_configs[oracle_addr].price_cache :
               oracle_configs[oracle_addr].price_cache[i].price_data.price > 0
    /\ (last.op \in {"update_price", "batch_update_prices"}
            /\ oracle_configs # last.pre.oracle_configs)
           => is_keeper(last.pre.oracle_configs[last.addr], last.signer)
    /\ (last.op = "update_price" /\ last.pre.oracle_configs[last.addr].exists) =>
           LET before == last.pre.oracle_configs[last.addr]
               after == oracle_configs[last.addr]
               keeper == is_keeper(before, last.signer)
           IN  /\ ~keeper => last.result = Abort(ORACLE_E_UNAUTHORIZED)
               /\ (keeper /\ last.args.price = 0)
                      => last.result = Abort(ORACLE_E_INVALID_PRICE)
               /\ last.result # Ok => oracle_configs = last.pre.oracle_configs
               /\ (keeper /\ last.args.price > 0) =>
                      /\ last.result = Ok
                      /\ HasFeed(after, last.args.token)
                      /\ FeedOf(after, last.args.token).price_data =
                             PriceData(last.args.price, last.args.confidence,
                                       last.pre.now)
                      /\ Len(after.price_cache) =
                             IF HasFeed(before, last.args.token)
                             THEN Len(before.price_cache)
                             ELSE Len(before.price_cache) + 1
                      /\ OtherFeeds(after, {last.args.token}) =
                             OtherFeeds(before, {last.args.token})
                      /\ after.keepers = before.keepers
                      /\ after.admin = before.admin

\* a keeper added by add_keeper has overwritten an entry, at a later time
\* and with another price
C12_Witness ==
    /\ last.op = "update_price"
    /\ last.result = Ok
    /\ last.signer # last.pre.oracle_configs[last.addr].admin
    /\ HasFeed(last.pre.oracle_configs[last.addr], last.args.token)
    /\ FeedOf(last.pre.oracle_configs[last.addr], last.args.token).price_data.price
           # last.args.price
    /\ FeedOf(last.pre.oracle_configs[last.addr], last.args.token).price_data.timestamp
           < last.pre.now
    /\ Len(oracle_configs[last.addr].price_cache) = Cardinality(Tokens)

-----------------------------------------------------------------------------
\* the statement of C13 with a rejection that the batch decides
BatchAllOrNothing(rejected) ==
    last.op = "batch_update_prices" =>
        LET batch == last.args
            after == oracle_configs[last.addr]
            before == last.pre.oracle_configs[last.addr]
        IN  /\ rejected =>
                /\ last.result # Ok
                /\ oracle_configs = last.pre.oracle_configs
            /\ ~rejected =>
                /\ last.result = Ok
                /\ \A token \in Listed(batch) :
                       /\ HasFeed(after, token)
                       /\ FeedOf(after, token).price_data =
                              PriceData(batch.prices[LastOccurrence(batch, token)],
                                        batch.confidences[LastOccurrence(batch, token)],
                                        last.pre.now)
                /\ OtherFeeds(after, Listed(batch)) = OtherFeeds(before, Listed(batch))

NotKeeper == ~is_keeper(last.pre.oracle_configs[last.addr], last.signer)

\* C13 as the specification states it: a batch whose arrays differ in
\* length, whose signer is not a keeper or that has a price of 0 aborts and
\* changes no entry; every other batch leaves each listed token with the
\* price of its last occurrence and the current time.
C13_Original ==
    BatchAllOrNothing(LengthMismatch(last.args) \/ NotKeeper \/ HasZeroPrice(last.args))

\* C13: a batch whose arrays differ in length (E_INVALID_PRICE), that has a
\* price of 0, or that is not empty and whose signer is not a keeper, aborts
\* and changes no entry, the entries of the elements before the failing one
\* included; every other batch leaves each listed token with the price of
\* its last occurrence and the current time. An empty batch succeeds for any
\* signer and writes nothing.
C13_BatchAllOrNothing ==
    /\ BatchAllOrNothing(\/ LengthMismatch(last.args)
                         \/ NotKeeper /\ last.args.tokens # <<>>
                         \/ HasZeroPrice(last.args))
    /\ (last.op = "batch_update_prices" /\ LengthMismatch(last.args))
           => last.result = Abort(ORACLE_E_INVALID_PRICE)

\* a keeper's batch has a valid first element and a price of 0 after it
C13_Witness ==
    /\ last.op = "batch_update_prices"
    /\ ~NotKeeper
    /\ ~LengthMismatch(last.args)
    /\ Len(last.args.prices) > 1
    /\ last.args.prices[1] > 0
    /\ HasZeroPrice(last.args)
    /\ last.result = Abort(ORACLE_E_INVALID_PRICE)
    /\ HasFeed(oracle_configs[last.addr], last.args.tokens[1])
    /\ FeedOf(oracle_configs[last.addr], last.args.tokens[1]).price_data.price
           # last.args.prices[1]

-----------------------------------------------------------------------------
\* C14: execute_conditional_order on a PENDING order fails with
\* E_ORDER_EXPIRED when now > expires_at and is not rejected for expiry when
\* now = expires_at; the expired order stays PENDING and
\* get_pending_orders_count still counts it; no order ever has the status
\* EXPIRED.
C14_ExpiredStaysPending ==
    /\ LastOnOrder("execute") =>
           LET o == OrderOf(last.pre.order_book.orders, last.order_id) IN
           /\ (o.status = ORDER_STATUS_PENDING /\ last.pre.now > o.expires_at) =>
                  /\ last.result = Abort(E_ORDER_EXPIRED)
                  /\ order_book = last.pre.order_book
                  /\ OrderOf(order_book.orders, last.order_id).status
                         = ORDER_STATUS_PENDING
                  /\ get_pending_orders_count
                         = Cardinality(PendingOrders(order_book.orders))
                  /\ get_pending_orders_count >= 1
                  /\ StatsAsBefore
           /\ (o.status = ORDER_STATUS_PENDING /\ last.pre.now = o.expires_at) =>
                  last.result # Abort(E_ORDER_EXPIRED)
    /\ \A i \in 1 .. Len(order_book.orders) :
           order_book.orders[i].status # ORDER_STATUS_EXPIRED

\* one order was executed at the second of its expires_at and another was
\* refused after its own and is the only one still counted as pending
C14_Witness ==
    /\ LastOnOrder("execute")
    /\ last.result = Abort(E_ORDER_EXPIRED)
    /\ get_pending_orders_count = 1
    /\ now > OrderOf(order_book.orders, last.order_id).expires_at
    /\ \E i \in 1 .. Len(order_book.orders) :
           /\ order_book.orders[i].status = ORDER_STATUS_EXECUTED
           /\ order_book.orders[i].executed_at = order_book.orders[i].expires_at

-----------------------------------------------------------------------------
\* floor(amount_in * 850 * 997 / 100000) as a number: the fraction is
\* reduced by 50 and the amount split, so that no product leaves the range
\* of the integers the check computes with
SwapOutput(amount_in) ==
    LET num == (850 * 997) \div 50
        den == 100000 \div 50
    IN  num * (amount_in \div den) + ((num * (amount_in % den)) \div den)

\* C15: execute_conditional_order on a PENDING, unexpired order whose
\* condition is met fails with E_SLIPPAGE_EXCEEDED when
\* floor(amount_in * 850 * 997 / 100000) < min_amount_out, leaving the order
\* PENDING and all stats unchanged, and succeeds when that output is at
\* least min_amount_out.
C15_Original ==
    LastOnOrder("execute") =>
        LET o == OrderOf(last.pre.order_book.orders, last.order_id) IN
        ( /\ o.status = ORDER_STATUS_PENDING
          /\ last.pre.now <= o.expires_at
          /\ Satisfies(o, last.price) )
        => /\ SwapOutput(o.amount_in) < o.min_amount_out =>
                  /\ last.result = Abort(E_SLIPPAGE_EXCEEDED)
                  /\ order_book = last.pre.order_book
                  /\ StatsAsBefore
           /\ SwapOutput(o.amount_in) >= o.min_amount_out => last.result = Ok

-----------------------------------------------------------------------------
(* Price alerts of trade_apt.move: inputs *)

AlertArgs(token, condition_type, target_price) ==
    [token |-> token, condition_type |-> condition_type, target_price |-> target_price]

\* condition types handed to create_alert
AlertConditionTypes ==
    {CONDITION_PRICE_ABOVE, CONDITION_PRICE_BELOW, CONDITION_IMMEDIATE, 0}

\* trade_apt.move has no constant for an EQ condition: whatever code stands
\* for it is none of CONDITION_PRICE_ABOVE and CONDITION_PRICE_BELOW, and
\* create_alert treats all such codes alike
AlertEq ==
    CHOOSE t \in AlertConditionTypes :
        t \notin {CONDITION_PRICE_ABOVE, CONDITION_PRICE_BELOW, CONDITION_IMMEDIATE}

\* the calls of create_alert, <<signer, arguments>>: USER1 asks for ABOVE,
\* USER2 for BELOW, and each for one type that is neither
CreateAlertCalls ==
    { <<USER1, AlertArgs("BTC", CONDITION_PRICE_ABOVE, 100000)>>,
      <<USER2, AlertArgs("APT", CONDITION_PRICE_BELOW, 100000)>>,
      <<USER1, AlertArgs("BTC", CONDITION_IMMEDIATE, 100000)>>,
      <<USER2, AlertArgs("BTC", AlertEq, 100000)>> }

\* the user_addr argument of trigger_alert
AlertOwners == {USER1, USER2}
AlertIds == 1 .. MaxAlerts
TriggerPrices == {99000, 100000, 100500}

-----------------------------------------------------------------------------
(* Price alerts of trade_apt.move: handlers *)

\* the loop of find_alert from index i: <<found, index>>
RECURSIVE find_alert_from(_, _, _)
find_alert_from(alerts, alert_id, i) ==
    IF i < Len(alerts)
    THEN IF alerts[i + 1].alert_id = alert_id
         THEN <<TRUE, i>>
         ELSE find_alert_from(alerts, alert_id, i + 1)
    ELSE <<FALSE, 0>>

find_alert(alerts, alert_id) == find_alert_from(alerts, alert_id, 0)

\* the alerts stored under all addresses together
AlertCount ==
    Cardinality(UNION {{<<a, i>> : i \in DOMAIN user_alerts[a].alerts} : a \in Addr})

create_alert_result(user_addr, a) ==
    IF ~(\/ a.condition_type = CONDITION_PRICE_ABOVE
         \/ a.condition_type = CONDITION_PRICE_BELOW)
    THEN Abort(E_INVALID_CONDITION)
    ELSE IF ~U64Add(init_user_account_alerts(user_alerts, user_addr)[user_addr]
                        .next_alert_id, 1).ok
    THEN ArithmeticError
    ELSE Ok

NewAlert(user_addr, alert_id, a) ==
    [alert_id |-> alert_id, owner |-> user_addr, token |-> a.token,
     condition_type |-> a.condition_type, target_price |-> a.target_price,
     is_active |-> TRUE, created_at |-> now, triggered_at |-> 0]

create_alert(user, a) ==
    LET r == create_alert_result(user, a)
        store == init_user_account_alerts(user_alerts, user)[user]
        alert_id == store.next_alert_id
    IN  /\ r = Ok => AlertCount < MaxAlerts
        /\ last' = Call("create_alert", user, 0, 0, a, r)
        /\ user_alerts' =
               IF r = Ok
               THEN [user_alerts EXCEPT ![user] =
                        [exists |-> TRUE,
                         alerts |-> Append(store.alerts, NewAlert(user, alert_id, a)),
                         next_alert_id |-> alert_id + 1]]
               ELSE user_alerts
        /\ UNCHANGED <<initialized, state, order_book, user_accounts, oracle_configs,
                       now, other_modules>>

\* mutant: the price has to pass the target, reaching it is not enough
trigger_condition_met_strict(condition_type, target_price, current_price) ==
    IF condition_type = CONDITION_PRICE_BELOW
    THEN current_price < target_price
    ELSE current_price > target_price

\* the condition check of trigger_alert
trigger_condition_met(condition_type, target_price, current_price) ==
    IF condition_type = CONDITION_PRICE_BELOW
    THEN current_price <= target_price
    ELSE current_price >= target_price

\* mutant: the is_active assertion is missing
trigger_alert_result_no_active_check(user_addr, alert_id, current_price) ==
    IF ~user_alerts[user_addr].exists THEN MissingData
    ELSE LET f == find_alert(user_alerts[user_addr].alerts, alert_id) IN
         IF ~f[1] THEN Abort(E_ORDER_NOT_FOUND)
         ELSE LET alert == user_alerts[user_addr].alerts[f[2] + 1] IN
              IF ~trigger_condition_met(alert.condition_type, alert.target_price,
                                        current_price)
              THEN Abort(E_INVALID_CONDITION)
              ELSE Ok

trigger_alert_result(user_addr, alert_id, current_price) ==
    IF ~user_alerts[user_addr].exists THEN MissingData
    ELSE LET f == find_alert(user_alerts[user_addr].alerts, alert_id) IN
         IF ~f[1] THEN Abort(E_ORDER_NOT_FOUND)
         ELSE LET alert == user_alerts[user_addr].alerts[f[2] + 1] IN
              IF ~alert.is_active THEN Abort(E_ORDER_NOT_FOUND)
              ELSE IF ~trigger_condition_met(alert.condition_type, alert.target_price,
                                             current_price)
              THEN Abort(E_INVALID_CONDITION)
              ELSE Ok

\* mutant: a triggered alert is counted as a trade of the protocol
trigger_alert_counted(executor, user_addr, alert_id, current_price) ==
    LET r == trigger_alert_result(user_addr, alert_id, current_price)
        index == find_alert(user_alerts[user_addr].alerts, alert_id)[2]
    IN  /\ last' = CallAt("trigger_alert", executor, user_addr, alert_id, current_price,
                          NoArgs, r)
        /\ user_alerts' =
               IF r = Ok
               THEN [user_alerts EXCEPT
                        ![user_addr].alerts[index + 1].is_active = FALSE,
                        ![user_addr].alerts[index + 1].triggered_at = now]
               ELSE user_alerts
        /\ state' = IF r = Ok THEN credit_state(state, 0) ELSE state
        /\ UNCHANGED <<initialized, order_book, user_accounts, oracle_configs,
                       now, alert_manager>>

trigger_alert(executor, user_addr, alert_id, current_price) ==
    LET r == trigger_alert_result(user_addr, alert_id, current_price)
        index == find_alert(user_alerts[user_addr].alerts, alert_id)[2]
    IN  /\ last' = CallAt("trigger_alert", executor, user_addr, alert_id, current_price,
                          NoArgs, r)
        /\ user_alerts' =
               IF r = Ok
               THEN [user_alerts EXCEPT
                        ![user_addr].alerts[index + 1].is_active = FALSE,
                        ![user_addr].alerts[index + 1].triggered_at = now]
               ELSE user_alerts
        /\ UNCHANGED <<initialized, state, order_book, user_accounts, oracle_configs,
                       now, alert_manager>>

\* mutant: cancel_alert fails on an alert that is not active
cancel_alert_result_active_only(user_addr, alert_id) ==
    IF ~user_alerts[user_addr].exists THEN MissingData
    ELSE LET f == find_alert(user_alerts[user_addr].alerts, alert_id) IN
         IF ~f[1] THEN Abort(E_ORDER_NOT_FOUND)
         ELSE IF ~user_alerts[user_addr].alerts[f[2] + 1].is_active
         THEN Abort(E_ORDER_NOT_FOUND)
         ELSE Ok

\* the alerts looked up are those stored under the signer's own address
cancel_alert_result(user_addr, alert_id) ==
    IF ~user_alerts[user_addr].exists THEN MissingData
    ELSE LET f == find_alert(user_alerts[user_addr].alerts, alert_id) IN
         IF ~f[1] THEN Abort(E_ORDER_NOT_FOUND)
         ELSE IF user_alerts[user_addr].alerts[f[2] + 1].owner # user_addr
         THEN Abort(E_UNAUTHORIZED)
         ELSE Ok

\* mutant: cancel_alert flips is_active
cancel_alert_write_flip(alert) == [alert EXCEPT !.is_active = ~@]

\* the write of cancel_alert
cancel_alert_write(alert) == [alert EXCEPT !.is_active = FALSE]

\* mutant: the alerts of all owners are in one numbering, and a cancel reaches
\* every alert that carries the id
cancel_alert_every_owner(user, alert_id) ==
    LET r == cancel_alert_result(user, alert_id) IN
    /\ last' = Call("cancel_alert", user, alert_id, 0, NoArgs, r)
    /\ user_alerts' =
           IF r = Ok
           THEN [a \in Addr |->
                    [user_alerts[a] EXCEPT !.alerts =
                        [i \in DOMAIN user_alerts[a].alerts |->
                            IF user_alerts[a].alerts[i].alert_id = alert_id
                            THEN cancel_alert_write(user_alerts[a].alerts[i])
                            ELSE user_alerts[a].alerts[i]]]]
           ELSE user_alerts
    /\ UNCHANGED <<initialized, state, order_book, user_accounts, oracle_configs,
                   now, other_modules>>

cancel_alert(user, alert_id) ==
    LET r == cancel_alert_result(user, alert_id)
        index == find_alert(user_alerts[user].alerts, alert_id)[2]
    IN  /\ last' = Call("cancel_alert", user, alert_id, 0, NoArgs, r)
        /\ user_alerts' =
               IF r = Ok
               THEN [user_alerts EXCEPT ![user].alerts[index + 1] = cancel_alert_write(@)]
               ELSE user_alerts
        /\ UNCHANGED <<initialized, state, order_book, user_accounts, oracle_configs,
                       now, other_modules>>

-----------------------------------------------------------------------------
(* The alerts taken alone *)

CreateAlert == \E c \in CreateAlertCalls : create_alert(c[1], c[2])
TriggerAlert ==
    \E executor \in Executors, user_addr \in AlertOwners, alert_id \in AlertIds,
       current_price \in TriggerPrices :
        /\ trigger_alert(executor, user_addr, alert_id, current_price)
        /\ UNCHANGED keeper_loop
CancelAlert == \E user \in Users, alert_id \in AlertIds : cancel_alert(user, alert_id)

NextAlerts == CreateAlert \/ TriggerAlert \/ CancelAlert \/ AdvanceTime

SpecAlerts == Init /\ [][NextAlerts]_vars

-----------------------------------------------------------------------------
(* Vocabulary of the alerts' properties *)

HasAlert(store, alert_id) ==
    \E i \in DOMAIN store.alerts : store.alerts[i].alert_id = alert_id

AlertOf(store, alert_id) ==
    store.alerts[CHOOSE i \in DOMAIN store.alerts : store.alerts[i].alert_id = alert_id]

\* the price satisfies the alert's condition, as section 4.2 of the spec has it
AlertSatisfies(alert, price) ==
    \/ alert.condition_type = CONDITION_PRICE_BELOW /\ price <= alert.target_price
    \/ alert.condition_type = CONDITION_PRICE_ABOVE /\ price >= alert.target_price

\* the last call is a trigger_alert on an alert its owner has
LastOnAlert(op) ==
    /\ last.op = op
    /\ last.pre.user_alerts[last.addr].exists
    /\ HasAlert(last.pre.user_alerts[last.addr], last.order_id)

LastAlertBefore == AlertOf(last.pre.user_alerts[last.addr], last.order_id)
LastAlertAfter == AlertOf(user_alerts[last.addr], last.order_id)

-----------------------------------------------------------------------------
\* C17: the is_active flag of an alert only changes from true to false: no
\* call makes an inactive alert active again, and no call removes an alert.
C17_ActiveOnlyFalls ==
    \A a \in Addr :
        /\ Len(user_alerts[a].alerts) >= Len(last.pre.user_alerts[a].alerts)
        /\ \A i \in DOMAIN last.pre.user_alerts[a].alerts :
               LET before == last.pre.user_alerts[a].alerts[i]
                   after == user_alerts[a].alerts[i]
               IN  /\ after.alert_id = before.alert_id
                   /\ ~before.is_active => ~after.is_active

\* the owner has cancelled an alert that had been triggered, and it is
\* inactive as before
C17_Witness ==
    /\ LastOnAlert("cancel_alert")
    /\ last.result = Ok
    /\ ~LastAlertBefore.is_active
    /\ LastAlertBefore.triggered_at > 0
    /\ ~LastAlertAfter.is_active

-----------------------------------------------------------------------------
\* C18: trigger_alert on an active alert with a price that does not satisfy
\* its condition fails with E_INVALID_CONDITION and the alert stays active
\* with triggered_at = 0; with a satisfying price it succeeds and sets
\* is_active = false and triggered_at = now, changing nothing else.
C18_TriggerNeedsCondition ==
    (LastOnAlert("trigger_alert") /\ LastAlertBefore.is_active) =>
        /\ ~AlertSatisfies(LastAlertBefore, last.price) =>
               /\ last.result = Abort(E_INVALID_CONDITION)
               /\ user_alerts = last.pre.user_alerts
               /\ LastAlertAfter.is_active
               /\ LastAlertAfter.triggered_at = 0
        /\ AlertSatisfies(LastAlertBefore, last.price) =>
               /\ last.result = Ok
               /\ user_alerts =
                      [last.pre.user_alerts EXCEPT ![last.addr].alerts =
                          [i \in DOMAIN @ |->
                              IF @[i].alert_id = last.order_id
                              THEN [@[i] EXCEPT !.is_active = FALSE,
                                                !.triggered_at = last.pre.now]
                              ELSE @[i]]]

\* the spec's scenario: an ABOVE alert on BTC with target 100000 was
\* triggered at the price 100500, by an address that is not its owner and
\* after the second of its creation
C18_Witness ==
    /\ LastOnAlert("trigger_alert")
    /\ last.result = Ok
    /\ last.price = 100500
    /\ last.signer # last.addr
    /\ LastAlertAfter.token = "BTC"
    /\ LastAlertAfter.condition_type = CONDITION_PRICE_ABOVE
    /\ LastAlertAfter.target_price = 100000
    /\ ~LastAlertAfter.is_active
    /\ LastAlertAfter.triggered_at = last.pre.now
    /\ LastAlertAfter.triggered_at > LastAlertAfter.created_at

-----------------------------------------------------------------------------
\* this step is the trigger_alert B made right after the trigger_alert A
\* recorded in `last` (only clock ticks in between), both with a satisfying
\* price on the same alert, which was active when A was made
TriggerRace ==
    /\ LastOnAlert("trigger_alert")
    /\ LastAlertBefore.is_active
    /\ AlertSatisfies(LastAlertBefore, last.price)
    /\ last'.op = "trigger_alert"
    /\ now' = now
    /\ last'.addr = last.addr
    /\ last'.order_id = last.order_id
    /\ AlertSatisfies(LastAlertBefore, last'.price)

TriggerRaceOnce ==
    TriggerRace =>
        /\ last.result = Ok
        /\ last'.result = Abort(E_ORDER_NOT_FOUND)
        /\ user_alerts' = user_alerts
        /\ AlertOf(user_alerts'[last.addr], last.order_id).triggered_at = last.pre.now

\* the alert the last trigger_alert names is absent or inactive
LastAlertAbsent ==
    \/ ~last.pre.user_alerts[last.addr].exists
    \/ ~HasAlert(last.pre.user_alerts[last.addr], last.order_id)

LastAlertInactive ==
    /\ last.pre.user_alerts[last.addr].exists
    /\ HasAlert(last.pre.user_alerts[last.addr], last.order_id)
    /\ ~LastAlertBefore.is_active

\* C19 as the specification states it: trigger_alert on an absent or
\* inactive alert fails with E_ORDER_NOT_FOUND and changes nothing; of two
\* racing trigger_alert calls with a satisfying price on the same active
\* alert exactly one succeeds and triggered_at is written once.
C19_Original ==
    [][ /\ (last'.op = "trigger_alert" /\ (LastAlertAbsent' \/ LastAlertInactive')) =>
               /\ last'.result = Abort(E_ORDER_NOT_FOUND)
               /\ user_alerts' = last'.pre.user_alerts
        /\ TriggerRaceOnce ]_vars

\* C19, amended: trigger_alert on an inactive alert, or on an alert id that
\* the alerts of an owner who has a UserAlerts resource do not hold, fails
\* with E_ORDER_NOT_FOUND; for an owner address that has no UserAlerts
\* resource it aborts on the missing resource; in each case nothing changes.
\* Of two racing trigger_alert calls with a satisfying price on the same
\* active alert exactly one succeeds and triggered_at is written once.
C19_TriggerGate ==
    [][ /\ (last'.op = "trigger_alert" /\ (LastAlertAbsent' \/ LastAlertInactive')) =>
               /\ last'.result =
                      IF last'.pre.user_alerts[last'.addr].exists
                      THEN Abort(E_ORDER_NOT_FOUND)
                      ELSE MissingData
               /\ user_alerts' = last'.pre.user_alerts
        /\ TriggerRaceOnce ]_vars

\* a second trigger_alert with a satisfying price has lost the race: the
\* first one triggered the alert at this very second
C19_Witness ==
    /\ LastOnAlert("trigger_alert")
    /\ last.result = Abort(E_ORDER_NOT_FOUND)
    /\ ~LastAlertBefore.is_active
    /\ LastAlertBefore.triggered_at = last.pre.now
    /\ AlertSatisfies(LastAlertBefore, last.price)
    /\ user_alerts = last.pre.user_alerts

-----------------------------------------------------------------------------
\* C20: create_alert succeeds for the condition types ABOVE, BELOW and EQ,
\* storing an alert with is_active = true, triggered_at = 0 and the owner's
\* next alert_id, and fails with E_INVALID_CONDITION for every other type,
\* creating no alert.
C20_Original ==
    last.op = "create_alert" =>
        LET before == last.pre.user_alerts[last.signer]
            after == user_alerts[last.signer]
        IN  IF last.args.condition_type
                   \in {CONDITION_PRICE_ABOVE, CONDITION_PRICE_BELOW, AlertEq}
            THEN /\ last.result = Ok
                 /\ Len(after.alerts) = Len(before.alerts) + 1
                 /\ LET alert == after.alerts[Len(after.alerts)] IN
                    /\ alert.is_active
                    /\ alert.triggered_at = 0
                    /\ alert.alert_id = before.next_alert_id
                    /\ alert.owner = last.signer
                    /\ alert.condition_type = last.args.condition_type
                    /\ alert.target_price = last.args.target_price
            ELSE /\ last.result = Abort(E_INVALID_CONDITION)
                 /\ user_alerts = last.pre.user_alerts

-----------------------------------------------------------------------------
(* Every module in use: the orders, the alerts and the oracle on one ledger *)

FeedCount ==
    Cardinality(UNION {{<<a, i>> : i \in DOMAIN oracle_configs[a].price_cache} :
                          a \in Addr})

\* the orders, alerts and price feeds stored
Records == Len(order_book.orders) + AlertCount + FeedCount

\* the ledger once trade_apt's initialize and the oracle's initialize have
\* run for @trade_apt
InitAll ==
    /\ initialized = {TRADE_APT}
    /\ state = NewTradeAptState(TRADE_APT)
    /\ order_book = NewOrderBook
    /\ user_accounts = [a \in Addr |-> NoUserAccount]
    /\ user_alerts = [a \in Addr |-> NoUserAlerts]
    /\ oracle_configs =
           [a \in Addr |-> IF a = TRADE_APT THEN NewOracleConfig(a) ELSE NoOracleConfig]
    /\ alert_manager = NewAlertManager
    /\ keeper_loop = NewKeeper
    /\ now = StartTime
    /\ last = [op |-> "none", signer |-> TRADE_APT, addr |-> TRADE_APT,
               order_id |-> 0, price |-> 0, args |-> NoArgs, result |-> Ok,
               pre |-> [initialized |-> {TRADE_APT},
                        state |-> NewTradeAptState(TRADE_APT),
                        order_book |-> NewOrderBook,
                        user_accounts |-> [a \in Addr |-> NoUserAccount],
                        user_alerts |-> [a \in Addr |-> NoUserAlerts],
                        oracle_configs |->
                            [a \in Addr |-> IF a = TRADE_APT THEN NewOracleConfig(a)
                                            ELSE NoOracleConfig],
                        alert_manager |-> NewAlertManager,
                        now |-> StartTime]]

\* any number of seconds pass between two transactions: here the clock goes
\* from the start to MaxTime in one step, past the expiry of every order
AdvanceTimeToEnd ==
    /\ now < MaxTime
    /\ now' = MaxTime
    /\ UNCHANGED <<initialized, state, order_book, user_accounts, user_alerts,
                   oracle_configs, last, other_modules>>

NextAll ==
    /\ \/ Create \/ Cancel \/ Execute
       \/ CreateAlert \/ TriggerAlert \/ CancelAlert
       \/ UpdatePrice \/ BatchUpdatePrices
       \/ AdvanceTimeToEnd
    /\ Records' <= MaxRecords

SpecAll == InitAll /\ [][NextAll]_vars

MutatingCalls ==
    {"create", "cancel", "execute", "create_alert", "trigger_alert", "cancel_alert",
     "update_price", "batch_update_prices"}

\* C16: a call of create_conditional_order, cancel_order,
\* execute_conditional_order, create_alert, trigger_alert, cancel_alert,
\* update_price or batch_update_prices that returns an error leaves the whole
\* state as it was before the call: orders, alerts, user accounts, protocol
\* stats, keepers and price cache.
C16_FailedCallChangesNothing ==
    (last.op \in MutatingCalls /\ last.result # Ok) =>
        /\ initialized = last.pre.initialized
        /\ state = last.pre.state
        /\ order_book = last.pre.order_book
        /\ user_accounts = last.pre.user_accounts
        /\ user_alerts = last.pre.user_alerts
        /\ oracle_configs = last.pre.oracle_configs

\* a keeper's batch was refused at its second element, and the entry that
\* its first element would have inserted is not in the cache
C16_Witness ==
    /\ last.op = "batch_update_prices"
    /\ last.result = Abort(ORACLE_E_INVALID_PRICE)
    /\ ~LengthMismatch(last.args)
    /\ is_keeper(last.pre.oracle_configs[last.addr], last.signer)
    /\ last.args.prices[1] > 0
    /\ ~HasFeed(oracle_configs[last.addr], last.args.tokens[1])

-----------------------------------------------------------------------------
(* price_alert.move: the alert manager, one list of alerts for all users *)

\* signers of create_alert_lt, create_alert_gt, create_alert_eq and
\* deactivate_alert
PriceAlertSenders == {USER1, USER2}
PriceAlertIds == 1 .. MaxAlerts
PriceAlertArgs(token, operator, target_price, message) ==
    [token |-> token, operator |-> operator, target_price |-> target_price,
     message |-> message]

create_alert_internal(sender, token, operator, target_price, message) ==
    LET r == IF U64Add(alert_manager.next_alert_id, 1).ok THEN Ok ELSE ArithmeticError
        alert == [alert_id |-> alert_manager.next_alert_id, user |-> sender,
                  token |-> token, operator |-> operator,
                  target_price |-> target_price, message |-> message,
                  is_active |-> TRUE, created_at |-> now]
    IN  /\ r = Ok => Len(alert_manager.alerts) < MaxAlerts
        /\ last' = Call("create_alert_internal", sender, 0, 0,
                        PriceAlertArgs(token, operator, target_price, message), r)
        /\ alert_manager' =
               IF r = Ok
               THEN [alerts |-> Append(alert_manager.alerts, alert),
                     next_alert_id |-> alert_manager.next_alert_id + 1]
               ELSE alert_manager
        /\ UNCHANGED <<initialized, state, order_book, user_accounts, user_alerts,
                       oracle_configs, keeper_loop, now>>

create_alert_lt(sender, token, target_price, message) ==
    create_alert_internal(sender, token, OPERATOR_LT, target_price, message)

create_alert_gt(sender, token, target_price, message) ==
    create_alert_internal(sender, token, OPERATOR_GT, target_price, message)

create_alert_eq(sender, token, target_price, message) ==
    create_alert_internal(sender, token, OPERATOR_EQ, target_price, message)

\* the loop of deactivate_alert from index i: the index of the first alert
\* with the id, or -1 where the loop falls through to the abort
RECURSIVE deactivate_alert_from(_, _, _)
deactivate_alert_from(alerts, alert_id, i) ==
    IF i < Len(alerts)
    THEN IF alerts[i + 1].alert_id = alert_id
         THEN i
         ELSE deactivate_alert_from(alerts, alert_id, i + 1)
    ELSE -1

\* the sender is not read
deactivate_alert(sender, alert_id) ==
    LET index == deactivate_alert_from(alert_manager.alerts, alert_id, 0)
        r == IF index = -1 THEN Abort(ERR_ALERT_NOT_FOUND) ELSE Ok
    IN  /\ last' = Call("deactivate_alert", sender, alert_id, 0, NoArgs, r)
        /\ alert_manager' =
               IF r = Ok
               THEN [alert_manager EXCEPT !.alerts[index + 1].is_active = FALSE]
               ELSE alert_manager
        /\ UNCHANGED <<initialized, state, order_book, user_accounts, user_alerts,
                       oracle_configs, keeper_loop, now>>

CreateAlertLt == \E sender \in PriceAlertSenders : create_alert_lt(sender, "BTC", 100000, "")
CreateAlertGt == \E sender \in PriceAlertSenders : create_alert_gt(sender, "BTC", 100000, "")
CreateAlertEq == \E sender \in PriceAlertSenders : create_alert_eq(sender, "BTC", 100000, "")
DeactivateAlert ==
    \E sender \in PriceAlertSenders, alert_id \in PriceAlertIds :
        deactivate_alert(sender, alert_id)

NextPriceAlert ==
    CreateAlertLt \/ CreateAlertGt \/ CreateAlertEq \/ DeactivateAlert \/ AdvanceTime

SpecPriceAlert == Init /\ [][NextPriceAlert]_vars

HasManagedAlert(manager, alert_id) ==
    \E i \in DOMAIN manager.alerts : manager.alerts[i].alert_id = alert_id

ManagedAlertOf(manager, alert_id) ==
    manager.alerts[CHOOSE i \in DOMAIN manager.alerts :
                       manager.alerts[i].alert_id = alert_id]

-----------------------------------------------------------------------------
\* C21: a cancel of an alert (deactivate_alert of price_alert.move) by an
\* address that is not the alert's owner fails and leaves the alert's
\* is_active unchanged, for every existing alert and every such caller.
C21_Original ==
    ( /\ last.op = "deactivate_alert"
      /\ HasManagedAlert(last.pre.alert_manager, last.order_id)
      /\ ManagedAlertOf(last.pre.alert_manager, last.order_id).user # last.signer )
    => /\ last.result # Ok
       /\ ManagedAlertOf(alert_manager, last.order_id).is_active
              = ManagedAlertOf(last.pre.alert_manager, last.order_id).is_active

-----------------------------------------------------------------------------
\* C22: cancel_alert by the owner is idempotent: on an alert the owner has it
\* succeeds and sets is_active = false, changing nothing else; on an alert
\* that is already inactive, cancelled or triggered, it succeeds and leaves
\* the alert exactly as it was, triggered_at included.
C22_CancelIdempotent ==
    LastOnAlert("cancel_alert") =>
        /\ last.result = Ok
        /\ user_alerts =
               [last.pre.user_alerts EXCEPT ![last.addr].alerts =
                   [i \in DOMAIN @ |->
                       IF @[i].alert_id = last.order_id
                       THEN [@[i] EXCEPT !.is_active = FALSE]
                       ELSE @[i]]]
        /\ ~LastAlertBefore.is_active =>
               /\ LastAlertAfter = LastAlertBefore
               /\ user_alerts = last.pre.user_alerts

\* the owner has cancelled an alert a second time: it was inactive and
\* never triggered, the call succeeded and the alert is as it was
C22_Witness ==
    /\ LastOnAlert("cancel_alert")
    /\ last.result = Ok
    /\ ~LastAlertBefore.is_active
    /\ LastAlertBefore.triggered_at = 0
    /\ LastAlertAfter = LastAlertBefore

-----------------------------------------------------------------------------
\* C30: order ids are assigned in sequence from 1 with no gap and no reuse:
\* the k-th stored order has order_id = k, a successful create appends an
\* order with the id next_order_id had, a failed create consumes no id, and
\* total_orders_created = next_order_id - 1 = the number of stored orders in
\* every reachable state.
C30_SequentialIds ==
    /\ \A i \in DOMAIN order_book.orders : order_book.orders[i].order_id = i
    /\ state.total_orders_created = order_book.next_order_id - 1
    /\ state.total_orders_created = Len(order_book.orders)
    /\ (last.op = "create" /\ last.result = Ok) =>
           /\ Len(order_book.orders) = Len(last.pre.order_book.orders) + 1
           /\ order_book.orders[Len(order_book.orders)].order_id
                  = last.pre.order_book.next_order_id
           /\ order_book.next_order_id = last.pre.order_book.next_order_id + 1
    /\ (last.op = "create" /\ last.result # Ok) =>
           /\ order_book = last.pre.order_book
           /\ state.total_orders_created = last.pre.state.total_orders_created

\* the second successful create has stored the order 2 behind the order 1
C30_Witness ==
    /\ last.op = "create"
    /\ last.result = Ok
    /\ last.pre.order_book.next_order_id = 2
    /\ Len(order_book.orders) = 2
    /\ order_book.orders[1].order_id = 1
    /\ order_book.orders[2].order_id = 2
    /\ state.total_orders_created = 2
    /\ order_book.next_order_id = 3

-----------------------------------------------------------------------------
(* execute_swap and init_user_account *)

SwapArgs(amount_in, min_amount_out) ==
    [amount_in |-> amount_in, min_amount_out |-> min_amount_out]

\* (user, amount_in, min_amount_out) passed to execute_swap: the output of
\* 20 is 169, so the first two succeed once the protocol is initialized, the
\* third fails on slippage and the fourth on the amount
SwapCalls ==
    { <<USER1, SwapArgs(20, 169)>>,
      <<USER2, SwapArgs(20, 0)>>,
      <<USER2, SwapArgs(20, 170)>>,
      <<USER1, SwapArgs(0, 0)>> }

\* the swaps that succeeded: the trades that are not executions of an order
SwapCount == state.total_trades - Cardinality(ExecutedOrders(order_book.orders, Addr))

init_user_account(user) ==
    /\ last' = Call("init_user_account", user, 0, 0, NoArgs, Ok)
    /\ user_accounts' = init_user_account_accounts(user_accounts, user)
    /\ user_alerts' = init_user_account_alerts(user_alerts, user)
    /\ UNCHANGED <<initialized, state, order_book, oracle_configs, now, other_modules>>

execute_swap_result(user_addr, a) ==
    IF ~(a.amount_in > 0) THEN Abort(E_INVALID_AMOUNT)
    ELSE LET amount_out == calculate_swap_output(a.amount_in)
             account == init_user_account_accounts(user_accounts, user_addr)[user_addr]
         IN  IF ~amount_out.ok THEN ArithmeticError
             ELSE IF ~(amount_out.value >= a.min_amount_out)
             THEN Abort(E_SLIPPAGE_EXCEEDED)
             ELSE IF \/ ~U64Add(account.total_trades, 1).ok
                     \/ ~U64Add(account.total_volume, a.amount_in).ok
             THEN ArithmeticError
             ELSE IF TRADE_APT \notin initialized THEN MissingData
             ELSE IF \/ ~U64Add(state.total_trades, 1).ok
                     \/ ~U64Add(state.total_volume_apt, a.amount_in).ok
             THEN ArithmeticError
             ELSE Ok

\* init_user_account runs only when the signer has no UserAccount
execute_swap(user, a) ==
    LET r == execute_swap_result(user, a)
        accounts == init_user_account_accounts(user_accounts, user)
    IN  /\ last' = Call("execute_swap", user, 0, 0, a, r)
        /\ IF r = Ok
           THEN /\ user_accounts' =
                      [accounts EXCEPT ![user] = credit_user_account(@, a.amount_in)]
                /\ user_alerts' =
                      IF user_accounts[user].exists THEN user_alerts
                      ELSE init_user_account_alerts(user_alerts, user)
                /\ state' = credit_state(state, a.amount_in)
           ELSE UNCHANGED <<user_accounts, user_alerts, state>>
        /\ UNCHANGED <<initialized, order_book, oracle_configs, now, other_modules>>

-----------------------------------------------------------------------------
(* The entry functions of trade_apt together, the clock standing still *)

\* signers of initialize: the module's address and a user
AnyInitializers == {TRADE_APT, USER1}

InitializeAny == \E admin \in AnyInitializers : initialize(admin)
InitUserAccount == \E user \in Users : init_user_account(user)
ExecuteSwap == \E c \in SwapCalls : execute_swap(c[1], c[2])

\* the orders and alerts stored and the swaps made
LedgerRecords == Len(order_book.orders) + AlertCount + SwapCount

NextLedger ==
    /\ \/ InitUserAccount
       \/ ExecuteSwap
       \/ Create
       \/ Cancel
       \/ Execute
       \/ CreateAlert
       \/ TriggerAlert
       \/ CancelAlert
    /\ LedgerRecords' <= MaxLedger

\* the ledger once initialize has run for @trade_apt
InitLedger ==
    /\ initialized = {TRADE_APT}
    /\ state = NewTradeAptState(TRADE_APT)
    /\ order_book = NewOrderBook
    /\ user_accounts = [a \in Addr |-> NoUserAccount]
    /\ user_alerts = [a \in Addr |-> NoUserAlerts]
    /\ oracle_configs = [a \in Addr |-> NoOracleConfig]
    /\ alert_manager = NewAlertManager
    /\ keeper_loop = NewKeeper
    /\ now = StartTime
    /\ last = [op |-> "initialize", signer |-> TRADE_APT, addr |-> TRADE_APT,
               order_id |-> 0, price |-> 0, args |-> NoArgs, result |-> Ok,
               pre |-> [initialized |-> {}, state |-> NewTradeAptState(TRADE_APT),
                        order_book |-> NewOrderBook,
                        user_accounts |-> [a \in Addr |-> NoUserAccount],
                        user_alerts |-> [a \in Addr |-> NoUserAlerts],
                        oracle_configs |-> [a \in Addr |-> NoOracleConfig],
                        alert_manager |-> NewAlertManager,
                        now |-> StartTime]]

SpecLedger == InitLedger /\ [][NextLedger]_vars

\* initialize, by the module's address and by a user, among the calls that
\* change the stats and the order book
NextInit ==
    /\ InitializeAny \/ ExecuteSwap \/ Create \/ Cancel \/ Execute
    /\ LedgerRecords' <= MaxLedger

SpecInit == Init /\ [][NextInit]_vars

-----------------------------------------------------------------------------
AlertOps == {"create_alert", "trigger_alert", "cancel_alert"}

\* C23: create_alert, trigger_alert and cancel_alert never change any user's
\* total_trades or total_volume, the protocol's total_trades,
\* total_volume_apt or total_orders_created, or any conditional order.
C23_AlertsLeaveOrdersAndStats ==
    last.op \in AlertOps =>
        /\ state = last.pre.state
        /\ order_book = last.pre.order_book
        /\ \A a \in Addr :
               /\ user_accounts[a].total_trades = last.pre.user_accounts[a].total_trades
               /\ user_accounts[a].total_volume = last.pre.user_accounts[a].total_volume
               /\ user_accounts[a].orders = last.pre.user_accounts[a].orders

\* an alert was triggered while an order had been executed: the protocol
\* and the order's owner have the trade and its volume as before
C23_Witness ==
    /\ last.op = "trigger_alert"
    /\ last.result = Ok
    /\ ~LastAlertAfter.is_active
    /\ Len(order_book.orders) = 1
    /\ order_book.orders[1].status = ORDER_STATUS_EXECUTED
    /\ state.total_trades = 1
    /\ state.total_volume_apt = order_book.orders[1].amount_in
    /\ state.total_orders_created = 1
    /\ user_accounts[order_book.orders[1].owner].total_trades = 1

-----------------------------------------------------------------------------
\* the comparison the specification gives for a condition type, both bounds
\* inclusive
Inclusive(condition_type, target_price, observed) ==
    /\ condition_type = CONDITION_PRICE_BELOW => observed <= target_price
    /\ condition_type = CONDITION_PRICE_ABOVE => observed >= target_price

\* C24: the condition check of execute_conditional_order and of
\* trigger_alert is inclusive on both bounds: a BELOW condition passes
\* exactly when the observed price is at most the target, an ABOVE condition
\* exactly when it is at least the target, and a price equal to the target
\* passes both.
C24_InclusiveBounds ==
    /\ ( /\ LastOnOrder("execute")
         /\ OrderOf(last.pre.order_book.orders, last.order_id).status
                = ORDER_STATUS_PENDING
         /\ last.pre.now <= OrderOf(last.pre.order_book.orders, last.order_id).expires_at )
       => LET o == OrderOf(last.pre.order_book.orders, last.order_id) IN
          /\ o.condition_type \in {CONDITION_PRICE_BELOW, CONDITION_PRICE_ABOVE}
          /\ last.result # Abort(E_INVALID_CONDITION)
                 <=> Inclusive(o.condition_type, o.target_price, last.price)
          /\ last.price = o.target_price => last.result # Abort(E_INVALID_CONDITION)
    /\ ( LastOnAlert("trigger_alert") /\ LastAlertBefore.is_active )
       => /\ LastAlertBefore.condition_type
                 \in {CONDITION_PRICE_BELOW, CONDITION_PRICE_ABOVE}
          /\ last.result = Ok
                 <=> Inclusive(LastAlertBefore.condition_type,
                               LastAlertBefore.target_price, last.price)
          /\ last.price = LastAlertBefore.target_price => last.result = Ok

\* an ABOVE order was executed at a price equal to its target while a BELOW
\* alert is stored
C24_Witness ==
    /\ LastOnOrder("execute")
    /\ last.result = Ok
    /\ OrderOf(order_book.orders, last.order_id).condition_type = CONDITION_PRICE_ABOVE
    /\ last.price = OrderOf(order_book.orders, last.order_id).target_price
    /\ \E a \in Addr : \E i \in DOMAIN user_alerts[a].alerts :
           user_alerts[a].alerts[i].condition_type = CONDITION_PRICE_BELOW

-----------------------------------------------------------------------------
\* C25: execute_conditional_order and trigger_alert are not gated on
\* ownership: whoever signs, the call on an existing order succeeds exactly
\* when the order is PENDING, unexpired, its condition satisfied and its
\* output accepted, and the call on an existing alert exactly when the alert
\* is active and its condition satisfied; a successful execution credits the
\* owner of the order and never the executor.
C25_AnySignerExecutes ==
    /\ LastOnOrder("execute")
       => LET o == OrderOf(last.pre.order_book.orders, last.order_id) IN
          /\ last.result = Ok
                 <=> /\ o.status = ORDER_STATUS_PENDING
                     /\ last.pre.now <= o.expires_at
                     /\ Satisfies(o, last.price)
                     /\ OutputAccepted(o)
          /\ last.result # Abort(E_UNAUTHORIZED)
          /\ last.result = Ok
                 => /\ user_accounts[o.owner].total_trades
                           = last.pre.user_accounts[o.owner].total_trades + 1
                    /\ user_accounts[o.owner].total_volume
                           = last.pre.user_accounts[o.owner].total_volume + o.amount_in
                    /\ \A a \in Addr \ {o.owner} :
                           user_accounts[a] = last.pre.user_accounts[a]
    /\ LastOnAlert("trigger_alert")
       => /\ last.result = Ok
                 <=> /\ LastAlertBefore.is_active
                     /\ AlertSatisfies(LastAlertBefore, last.price)
          /\ last.result # Abort(E_UNAUTHORIZED)

\* an address that has an account of its own executed the order of another
\* owner: the owner has the trade, the executor has none
C25_Witness ==
    /\ LastOnOrder("execute")
    /\ last.result = Ok
    /\ LET o == OrderOf(order_book.orders, last.order_id) IN
       /\ o.owner # last.signer
       /\ user_accounts[last.signer].exists
       /\ user_accounts[last.signer].total_trades = 0
       /\ user_accounts[last.signer].total_volume = 0
       /\ user_accounts[o.owner].total_trades = 1
       /\ user_accounts[o.owner].total_volume = o.amount_in

-----------------------------------------------------------------------------
\* the trade counters of every user and of the protocol are those before the
\* last call
TradesAsBefore ==
    /\ state.total_trades = last.pre.state.total_trades
    /\ state.total_volume_apt = last.pre.state.total_volume_apt
    /\ \A a \in Addr :
           /\ user_accounts[a].total_trades = last.pre.user_accounts[a].total_trades
           /\ user_accounts[a].total_volume = last.pre.user_accounts[a].total_volume

\* no counter is below its value before the last call
CountersNotDecreased ==
    /\ state.total_trades >= last.pre.state.total_trades
    /\ state.total_volume_apt >= last.pre.state.total_volume_apt
    /\ state.total_orders_created >= last.pre.state.total_orders_created
    /\ \A a \in Addr :
           /\ user_accounts[a].total_trades >= last.pre.user_accounts[a].total_trades
           /\ user_accounts[a].total_volume >= last.pre.user_accounts[a].total_volume

\* C26 as the specification states it: the counters total_trades,
\* total_volume and total_orders_created of the users and of the protocol
\* change only in a successful execution of a conditional order, every other
\* call leaves them unchanged, and no counter ever decreases.
C26_Original ==
    /\ ~(last.op = "execute" /\ last.result = Ok) =>
           /\ TradesAsBefore
           /\ state.total_orders_created = last.pre.state.total_orders_created
    /\ CountersNotDecreased

\* C26, amended: total_trades and total_volume of a user and of the protocol
\* change only in a successful execute_conditional_order and in a successful
\* execute_swap, which adds 1 and amount_in to the counters of its signer
\* and of the protocol; total_orders_created changes only in a successful
\* create_conditional_order, by 1; every other call and every failed call
\* leaves the counters unchanged, and no counter ever decreases.
C26_CountersOnlyGrow ==
    /\ ~(last.op \in {"execute", "execute_swap"} /\ last.result = Ok) => TradesAsBefore
    /\ (last.op = "execute_swap" /\ last.result = Ok) =>
           /\ state.total_trades = last.pre.state.total_trades + 1
           /\ state.total_volume_apt
                  = last.pre.state.total_volume_apt + last.args.amount_in
           /\ user_accounts[last.signer].total_trades
                  = last.pre.user_accounts[last.signer].total_trades + 1
           /\ user_accounts[last.signer].total_volume
                  = last.pre.user_accounts[last.signer].total_volume + last.args.amount_in
           /\ \A a \in Addr \ {last.signer} :
                  user_accounts[a] = last.pre.user_accounts[a]
    /\ state.total_orders_created =
           IF last.op = "create" /\ last.result = Ok
           THEN last.pre.state.total_orders_created + 1
           ELSE last.pre.state.total_orders_created
    /\ CountersNotDecreased

\* a swap succeeded after an order had been executed: the protocol counts
\* two trades
C26_Witness ==
    /\ last.op = "execute_swap"
    /\ last.result = Ok
    /\ Len(order_book.orders) = 1
    /\ order_book.orders[1].status = ORDER_STATUS_EXECUTED
    /\ state.total_trades = 2
    /\ state.total_volume_apt = order_book.orders[1].amount_in + last.args.amount_in
    /\ user_accounts[last.signer].total_trades >= 1

-----------------------------------------------------------------------------
\* the protocol state, stored under @trade_apt, exists when the last call is
\* made and the call leaves it and the order book as they were
ProtocolStateKept ==
    TRADE_APT \in last.pre.initialized =>
        /\ TRADE_APT \in initialized
        /\ state = last.pre.state
        /\ order_book = last.pre.order_book

\* C27 as the specification states it: initialize called when the protocol
\* state exists fails with E_ALREADY_INITIALIZED and leaves the stats and the
\* order book unchanged; after the first initialize the three protocol stats
\* are 0.
C27_Original ==
    last.op = "initialize" =>
        /\ TRADE_APT \in last.pre.initialized =>
               last.result = Abort(E_ALREADY_INITIALIZED)
        /\ ProtocolStateKept
        /\ (TRADE_APT \notin last.pre.initialized /\ last.result = Ok
            /\ TRADE_APT \in initialized) =>
               /\ state.total_trades = 0
               /\ state.total_volume_apt = 0
               /\ state.total_orders_created = 0

\* C27, amended: initialize by a signer whose address already holds a state
\* fails with E_ALREADY_INITIALIZED, and by any other signer it succeeds,
\* storing a state under the signer's address; no initialize, whoever signs
\* and whatever its outcome, changes the stats or the order book that exist
\* under @trade_apt; after the first initialize by @trade_apt the three
\* protocol stats are 0 and the order book is empty.
C27_InitializeOnce ==
    last.op = "initialize" =>
        /\ last.result = IF last.signer \in last.pre.initialized
                         THEN Abort(E_ALREADY_INITIALIZED)
                         ELSE Ok
        /\ last.result = Ok => initialized = last.pre.initialized \cup {last.signer}
        /\ last.result # Ok => initialized = last.pre.initialized
        /\ ProtocolStateKept
        /\ (last.signer = TRADE_APT /\ last.result = Ok) =>
               /\ state.total_trades = 0
               /\ state.total_volume_apt = 0
               /\ state.total_orders_created = 0
               /\ order_book = NewOrderBook
        /\ user_accounts = last.pre.user_accounts

\* @trade_apt called initialize a second time, after an order was created
\* and trades were made: the call failed and the counters and the order are
\* still there
C27_Witness ==
    /\ last.op = "initialize"
    /\ last.signer = TRADE_APT
    /\ last.result = Abort(E_ALREADY_INITIALIZED)
    /\ state.total_trades > 0
    /\ state.total_volume_apt > 0
    /\ state.total_orders_created > 0
    /\ Len(order_book.orders) > 0

-----------------------------------------------------------------------------
(* The keeper loop (ExecutionCoordinator), after sections 4.6 and 5 of the
   specification: one cycle at a time enumerates the PENDING orders and the
   active alerts; for each it reads price and freshness in one
   get_price_safe call, skips the record when the price is stale and
   otherwise evaluates the condition and, when it is met, submits
   execute_conditional_order or trigger_alert with the price read. A
   submission refused at the status check is logged and not retried. *)

\* the address the keeper signs its submissions with
KeeperSigner == TRADE_APT
\* the oracle the keeper reads
KeeperOracle == TRADE_APT

\* mutant: the scan enumerates every order and alert, terminal ones too
KeeperItems_all ==
    {[kind |-> "order", addr |-> TRADE_APT, id |-> order_book.orders[i].order_id] :
        i \in DOMAIN order_book.orders}
    \cup UNION {{[kind |-> "alert", addr |-> a, id |-> user_alerts[a].alerts[i].alert_id] :
                    i \in DOMAIN user_alerts[a].alerts} : a \in Addr}

\* step (2) of a cycle: the PENDING orders and the active alerts
KeeperItems ==
    {[kind |-> "order", addr |-> TRADE_APT, id |-> order_book.orders[i].order_id] :
        i \in PendingOrders(order_book.orders)}
    \cup UNION {{[kind |-> "alert", addr |-> a, id |-> user_alerts[a].alerts[i].alert_id] :
                    i \in {j \in DOMAIN user_alerts[a].alerts :
                              user_alerts[a].alerts[j].is_active}} : a \in Addr}

KeeperRecord(item) ==
    IF item.kind = "order"
    THEN OrderOf(order_book.orders, item.id)
    ELSE AlertOf(user_alerts[item.addr], item.id)

\* the token whose price decides the record: the token an order buys, the
\* token an alert names
KeeperToken(item) ==
    IF item.kind = "order" THEN KeeperRecord(item).token_out ELSE KeeperRecord(item).token

\* the evaluation of section 4.2 on the stored condition
KeeperConditionMet(item, price) ==
    condition_met(KeeperRecord(item).condition_type, KeeperRecord(item).target_price,
                  price)

\* mutant: the keeper submits on a met condition whatever the freshness
KeeperDecides_ignoring_freshness(is_fresh, met) == met

\* step (3): skip when the price is stale, submit when the condition is met
KeeperDecides(is_fresh, met) == is_fresh /\ met

\* a new cycle starts once the submissions of the previous one are dispatched
KeeperScan ==
    /\ keeper_loop.todo = {}
    /\ keeper_loop.outbox = {}
    /\ KeeperItems # {}
    /\ keeper_loop' = [keeper_loop EXCEPT !.todo = KeeperItems]
    /\ UNCHANGED <<initialized, state, order_book, user_accounts, user_alerts,
                   oracle_configs, alert_manager, now, last>>

\* price and freshness are read together, and the decision is made on them
KeeperRead(item) ==
    LET read == get_price_safe(oracle_configs[KeeperOracle], KeeperToken(item), now)
        submit == KeeperDecides(read.is_fresh, KeeperConditionMet(item, read.price))
    IN  /\ keeper_loop' =
               [keeper_loop EXCEPT
                   !.todo = @ \ {item},
                   !.outbox = IF submit
                              THEN @ \cup {[item |-> item, price |-> read.price,
                                            is_fresh |-> read.is_fresh]}
                              ELSE @]
        /\ UNCHANGED <<initialized, state, order_book, user_accounts, user_alerts,
                       oracle_configs, alert_manager, now, last>>

\* the submission is a transaction of its own; refused at the status check
\* (E_ORDER_NOT_FOUND) it is logged, and in every case it is dropped
KeeperSubmit(sub) ==
    LET r == IF sub.item.kind = "order"
             THEN execute_conditional_order_result(sub.item.id, sub.price)
             ELSE trigger_alert_result(sub.item.addr, sub.item.id, sub.price)
    IN  /\ IF sub.item.kind = "order"
           THEN execute_conditional_order(KeeperSigner, sub.item.id, sub.price)
           ELSE trigger_alert(KeeperSigner, sub.item.addr, sub.item.id, sub.price)
        /\ keeper_loop' =
               [keeper_loop EXCEPT
                   !.outbox = @ \ {sub},
                   !.failed = IF r = Abort(E_ORDER_NOT_FOUND)
                              THEN @ \cup {sub.item}
                              ELSE @]

\* step (1) of a cycle, the refresh of the price cache: the poller hands a
\* price of the token to update_price
KeeperRefresh ==
    \E price \in UpdatePrices \ {0}, confidence \in Confidences :
        update_price(KeeperSigner, KeeperOracle, "APT", price, confidence)

\* between two transactions more than MAX_PRICE_AGE seconds pass: every
\* price in the cache goes stale
KeeperWait ==
    /\ Ticks(now + MAX_PRICE_AGE + 1) <= MaxTicks
    /\ now' = now + MAX_PRICE_AGE + 1
    /\ UNCHANGED <<initialized, state, order_book, user_accounts, user_alerts,
                   oracle_configs, last, other_modules>>

KeeperReadNext == \E item \in keeper_loop.todo : KeeperRead(item)
KeeperSubmitNext == \E sub \in keeper_loop.outbox : KeeperSubmit(sub)

NextKeeper ==
    /\ \/ Create \/ Cancel
       \/ CreateAlert \/ CancelAlert
       \/ KeeperRefresh
       \/ KeeperWait
       \/ KeeperScan \/ KeeperReadNext \/ KeeperSubmitNext
    /\ Len(order_book.orders)' + AlertCount' <= MaxRecords

SpecKeeper == InitAll /\ [][NextKeeper]_vars

-----------------------------------------------------------------------------
\* this step dispatches a submission of the keeper
KeeperSubmitStep ==
    /\ keeper_loop'.todo = keeper_loop.todo
    /\ keeper_loop'.outbox # keeper_loop.outbox

\* the submission this step dispatches
Submitted == CHOOSE sub \in keeper_loop.outbox : sub \notin keeper_loop'.outbox

\* the ledger and the price cache are after this step what they were
LedgerUntouched ==
    UNCHANGED <<initialized, state, order_book, user_accounts, user_alerts,
                oracle_configs>>

\* C28: in every cycle the keeper submits execute_conditional_order or
\* trigger_alert for a record only if the price it read, together with its
\* freshness in one get_price_safe read, was fresh and satisfied the record's
\* condition, and the submission carries that price; a record whose price is
\* stale is skipped and left PENDING or active.
C28_KeeperSubmitsOnFreshPrice ==
    [][ /\ \A item \in keeper_loop.todo \ keeper_loop'.todo :
               LET read == get_price_safe(oracle_configs[KeeperOracle],
                                          KeeperToken(item), now)
                   queued == keeper_loop'.outbox \ keeper_loop.outbox
               IN  /\ LedgerUntouched
                   /\ ~read.is_fresh => queued = {}
                   /\ ~KeeperConditionMet(item, read.price) => queued = {}
                   /\ queued \subseteq {[item |-> item, price |-> read.price,
                                         is_fresh |-> TRUE]}
        /\ KeeperSubmitStep =>
               /\ Submitted.is_fresh
               /\ KeeperConditionMet(Submitted.item, Submitted.price)
               /\ last'.signer = KeeperSigner
               /\ last'.op = (IF Submitted.item.kind = "order"
                              THEN "execute" ELSE "trigger_alert")
               /\ last'.order_id = Submitted.item.id
               /\ last'.price = Submitted.price
        /\ ( /\ last' # last
             /\ last'.signer = KeeperSigner
             /\ last'.op \in {"execute", "trigger_alert"} ) =>
               KeeperSubmitStep ]_vars

\* the keeper has executed a BELOW order at the fresh price 650 it read
C28_Witness ==
    /\ last.op = "execute"
    /\ last.signer = KeeperSigner
    /\ last.result = Ok
    /\ last.price = 650
    /\ get_price_safe(oracle_configs[KeeperOracle], "APT", last.pre.now)
           = [price |-> 650, is_fresh |-> TRUE]
    /\ OrderOf(order_book.orders, last.order_id).status = ORDER_STATUS_EXECUTED
    /\ OrderOf(order_book.orders, last.order_id).condition_type = CONDITION_PRICE_BELOW
    /\ keeper_loop.outbox = {}

-----------------------------------------------------------------------------
\* the record of the item is resolved: the order is not PENDING, the alert
\* not active
KeeperResolved(item) ==
    IF item.kind = "order"
    THEN KeeperRecord(item).status # ORDER_STATUS_PENDING
    ELSE ~KeeperRecord(item).is_active

-----------------------------------------------------------------------------
\* C31: every stored order has expires_at > created_at, for every
\* duration_seconds that create_conditional_order accepts.
C31_Original ==
    \A i \in DOMAIN order_book.orders :
        order_book.orders[i].expires_at > order_book.orders[i].created_at

-----------------------------------------------------------------------------
(* Orders with amounts at the edge of the u64 range *)

\* the largest amount_in whose product amount_in * 850 * 997 fits in u64
MaxSwapAmount == MAX_U64 \div (850 * 997)

\* (user, args) passed to create_conditional_order: the first order asks for
\* one more than its output, the second does so with an amount whose product
\* overflows, the third asks for nothing
EdgeCalls ==
    { <<USER1, CreateArgs("USDC", "APT", MaxSwapAmount, SwapOutput(MaxSwapAmount) + 1,
                          CONDITION_PRICE_BELOW, 700, 1)>>,
      <<USER1, CreateArgs("USDC", "APT", MaxSwapAmount + 1,
                          SwapOutput(MaxSwapAmount + 1) + 1,
                          CONDITION_PRICE_BELOW, 700, 1)>>,
      <<USER2, CreateArgs("USDC", "APT", MaxSwapAmount + 1, 0,
                          CONDITION_PRICE_ABOVE, 700, 1)>> }

CreateEdge == \E c \in EdgeCalls : create_conditional_order(c[1], c[2])

NextEdge == CreateEdge \/ Cancel \/ Execute \/ AdvanceTime

SpecEdge == InitLedger /\ [][NextEdge]_vars

\* C32: execute_conditional_order reports its failures in a fixed
\* precedence: an absent or non-PENDING order gives E_ORDER_NOT_FOUND; else
\* now > expires_at gives E_ORDER_EXPIRED; else a condition that is not met
\* gives E_INVALID_CONDITION; else an output below min_amount_out gives
\* E_SLIPPAGE_EXCEEDED.
C32_Original ==
    last.op = "execute" =>
        IF ~HasOrder(last.pre.order_book.orders, last.order_id)
        THEN last.result = Abort(E_ORDER_NOT_FOUND)
        ELSE LET o == OrderOf(last.pre.order_book.orders, last.order_id) IN
             IF o.status # ORDER_STATUS_PENDING
             THEN last.result = Abort(E_ORDER_NOT_FOUND)
             ELSE IF last.pre.now > o.expires_at
             THEN last.result = Abort(E_ORDER_EXPIRED)
             ELSE IF ~Satisfies(o, last.price)
             THEN last.result = Abort(E_INVALID_CONDITION)
             ELSE SwapOutput(o.amount_in) < o.min_amount_out
                      => last.result = Abort(E_SLIPPAGE_EXCEEDED)

-----------------------------------------------------------------------------
\* C33: a successful cancel_order or execute_conditional_order on an order
\* changes only that order and, for execute, the total_trades and
\* total_volume of its owner and of the protocol: every field of every other
\* order, every other account and every other counter is unchanged.
C33_OnlyTheOrderChanges ==
    (last.op \in {"cancel", "execute"} /\ last.result = Ok) =>
        /\ Len(order_book.orders) = Len(last.pre.order_book.orders)
        /\ order_book.next_order_id = last.pre.order_book.next_order_id
        /\ \A i \in DOMAIN order_book.orders :
               last.pre.order_book.orders[i].order_id # last.order_id =>
                   order_book.orders[i] = last.pre.order_book.orders[i]
        /\ last.op = "cancel" => StatsAsBefore
        /\ last.op = "execute" =>
               LET owner == OrderOf(last.pre.order_book.orders, last.order_id).owner IN
               /\ \A a \in Addr \ {owner} :
                      user_accounts[a] = last.pre.user_accounts[a]
               /\ user_accounts[owner].orders = last.pre.user_accounts[owner].orders
               /\ user_accounts[owner].created_at
                      = last.pre.user_accounts[owner].created_at
               /\ state.total_orders_created = last.pre.state.total_orders_created
               /\ state.admin = last.pre.state.admin
        /\ user_alerts = last.pre.user_alerts

\* the second of two PENDING orders was cancelled, the first is PENDING as
\* before
C33_Witness ==
    /\ last.op = "cancel"
    /\ last.result = Ok
    /\ last.order_id = 2
    /\ Len(order_book.orders) = 2
    /\ last.pre.order_book.orders[1].status = ORDER_STATUS_PENDING
    /\ last.pre.order_book.orders[2].status = ORDER_STATUS_PENDING
    /\ order_book.orders[1] = last.pre.order_book.orders[1]
    /\ order_book.orders[2].status = ORDER_STATUS_CANCELLED

-----------------------------------------------------------------------------
\* C34: over every step of the oracle, every entry of every price cache stays
\* where it is, for the same token, and its timestamp does not decrease: an
\* entry once present is never removed and the last update of a token never
\* goes back.
C34_FeedsKeptAndTimestampsGrow ==
    [][\A a \in Addr :
           \A i \in DOMAIN oracle_configs[a].price_cache :
               /\ i \in DOMAIN oracle_configs'[a].price_cache
               /\ oracle_configs'[a].price_cache[i].token
                      = oracle_configs[a].price_cache[i].token
               /\ oracle_configs'[a].price_cache[i].price_data.timestamp
                      >= oracle_configs[a].price_cache[i].price_data.timestamp]_vars

\* a token's entry was written a second time, later than the first, while the
\* cache holds another token's entry
C34_Witness ==
    /\ last.op \in {"update_price", "batch_update_prices"}
    /\ last.result = Ok
    /\ \E i, j \in DOMAIN last.pre.oracle_configs[last.addr].price_cache :
           /\ i # j
           /\ last.pre.oracle_configs[last.addr].price_cache[i].price_data.timestamp
                  < oracle_configs[last.addr].price_cache[i].price_data.timestamp
           /\ oracle_configs[last.addr].price_cache[j]
                  = last.pre.oracle_configs[last.addr].price_cache[j]

-----------------------------------------------------------------------------
(* price_alert: the views get_alert and should_alert_trigger *)

\* a view that returned the value
Returned(value) == [kind |-> "returned", code |-> 0, value |-> value]

\* the loop of get_alert from index i: the index of the first alert with the
\* id, or -1 where the loop falls through to the abort
RECURSIVE get_alert_from(_, _, _)
get_alert_from(alerts, alert_id, i) ==
    IF i < Len(alerts)
    THEN IF alerts[i + 1].alert_id = alert_id
         THEN i
         ELSE get_alert_from(alerts, alert_id, i + 1)
    ELSE -1

should_alert_trigger(alert_id, current_price) ==
    LET index == get_alert_from(alert_manager.alerts, alert_id, 0) IN
    IF index = -1 THEN Abort(ERR_ALERT_NOT_FOUND)
    ELSE LET alert == alert_manager.alerts[index + 1] IN
         IF ~alert.is_active THEN Abort(ERR_ALERT_INACTIVE)
         ELSE IF alert.operator = OPERATOR_LT
              THEN Returned(current_price < alert.target_price)
         ELSE IF alert.operator = OPERATOR_GT
              THEN Returned(current_price > alert.target_price)
         ELSE IF alert.operator = OPERATOR_EQ
              THEN Returned(current_price = alert.target_price)
         ELSE Abort(ERR_INVALID_OPERATOR)

\* the prices the view is asked about: below, at and above the target of the
\* alerts created
ViewPrices == {99999, 100000, 100001}

\* C35: for every stored alert and every price, should_alert_trigger fails
\* with ERR_ALERT_INACTIVE on an inactive alert and otherwise returns the
\* inclusive comparison: a less-than alert triggers iff price <= target, a
\* greater-than alert iff price >= target, an equal alert iff price = target.
C35_Original ==
    \A i \in DOMAIN alert_manager.alerts, price \in ViewPrices :
        LET alert == alert_manager.alerts[i]
            r == should_alert_trigger(alert.alert_id, price)
        IN  IF ~alert.is_active
            THEN r.kind = "abort" /\ r.code = ERR_ALERT_INACTIVE
            ELSE /\ r.kind = "returned"
                 /\ alert.operator = OPERATOR_LT =>
                        (r.value <=> price <= alert.target_price)
                 /\ alert.operator = OPERATOR_GT =>
                        (r.value <=> price >= alert.target_price)
                 /\ alert.operator = OPERATOR_EQ =>
                        (r.value <=> price = alert.target_price)

-----------------------------------------------------------------------------
\* C36: the owner's cancel_order on a PENDING order past its expiry succeeds
\* and leaves the order CANCELLED; and an order that was PENDING and past its
\* expiry before a call is no longer PENDING after it only if the call was
\* its owner's cancel_order, and then it is CANCELLED, never EXECUTED.
C36_ExpiredOrderOnlyCancelled ==
    \A i \in DOMAIN last.pre.order_book.orders :
        LET before == last.pre.order_book.orders[i]
            after == order_book.orders[i]
        IN  (before.status = ORDER_STATUS_PENDING /\ last.pre.now > before.expires_at) =>
                /\ (/\ last.op = "cancel"
                    /\ last.order_id = before.order_id
                    /\ last.signer = before.owner)
                       => (last.result = Ok /\ after.status = ORDER_STATUS_CANCELLED)
                /\ after.status # ORDER_STATUS_PENDING =>
                       /\ last.op = "cancel"
                       /\ last.order_id = before.order_id
                       /\ last.signer = before.owner
                       /\ after.status = ORDER_STATUS_CANCELLED

\* the owner cancelled a PENDING order after its expiry
C36_Witness ==
    /\ last.op = "cancel"
    /\ last.result = Ok
    /\ \E i \in DOMAIN last.pre.order_book.orders :
           /\ last.pre.order_book.orders[i].order_id = last.order_id
           /\ last.pre.order_book.orders[i].status = ORDER_STATUS_PENDING
           /\ last.pre.now > last.pre.order_book.orders[i].expires_at
           /\ order_book.orders[i].status = ORDER_STATUS_CANCELLED

-----------------------------------------------------------------------------
\* C37: every accepted order is executable: execute_conditional_order on a
\* PENDING, unexpired order with min_amount_out = 0 and a satisfying price
\* succeeds, whatever its amount_in; the product computed by
\* calculate_swap_output never leaves the u64 range.
C37_Original ==
    LastOnOrder("execute") =>
        LET o == OrderOf(last.pre.order_book.orders, last.order_id) IN
        ( /\ o.status = ORDER_STATUS_PENDING
          /\ last.pre.now <= o.expires_at
          /\ o.min_amount_out = 0
          /\ Satisfies(o, last.price) )
        => /\ calculate_swap_output(o.amount_in).ok
           /\ last.result = Ok

-----------------------------------------------------------------------------
(* Two oracle configs: each of two admins initializes its own, adds keepers
   and is called by keepers and strangers *)

ConfigAdmins == {TRADE_APT, USER1}

ConfigInitialize == \E admin \in ConfigAdmins : oracle_initialize(admin)
ConfigAddKeeper ==
    \E admin \in ConfigAdmins, new_keeper \in {USER1, USER2} : add_keeper(admin, new_keeper)
ConfigUpdatePrice ==
    \E keeper \in Addr, oracle_addr \in ConfigAdmins, price \in {0, 650} :
        update_price(keeper, oracle_addr, "APT", price, 10)
ConfigBatchUpdatePrices ==
    \E keeper \in Addr, oracle_addr \in ConfigAdmins,
       batch \in {Batch(<<>>, <<>>, <<>>), Batch(<<"APT", "BTC">>, <<650, 800>>, <<10, 10>>)} :
        batch_update_prices(keeper, oracle_addr, batch)

NextConfigs ==
    ConfigInitialize \/ ConfigAddKeeper \/ ConfigUpdatePrice \/ ConfigBatchUpdatePrices

SpecConfigs == Init /\ [][NextConfigs]_vars

\* keepers is keepers_before with entries added at its end
KeepersGrown(keepers_before, keepers) ==
    /\ Len(keepers_before) <= Len(keepers)
    /\ \A i \in DOMAIN keepers_before : keepers[i] = keepers_before[i]

\* C38: a config is stored under its admin's address and its keeper list
\* always contains the admin; over every call the list of an existing config
\* only grows, and it changes only by a successful add_keeper signed by the
\* admin, which appends the keeper named; a call whose signer is neither the
\* admin nor in the keeper list of a config leaves that config, its keeper
\* list and its price cache, as it was.
C38_KeepersByAdminOnly ==
    \A a \in Addr :
        LET before == last.pre.oracle_configs[a]
            after == oracle_configs[a]
        IN  /\ after.exists => (after.admin = a /\ is_keeper(after, after.admin))
            /\ before.exists =>
                   /\ after.exists
                   /\ after.admin = before.admin
                   /\ KeepersGrown(before.keepers, after.keepers)
                   /\ after.keepers # before.keepers =>
                          /\ last.op = "add_keeper"
                          /\ last.signer = before.admin
                          /\ last.result = Ok
                          /\ after.keepers = Append(before.keepers, last.addr)
                   /\ (last.signer # before.admin /\ ~is_keeper(before, last.signer))
                          => after = before

\* a keeper of USER1's config that is no keeper of @trade_apt's config asked
\* to write a valid price into @trade_apt's config, which keeps its admin as
\* its only keeper while USER1's own list has grown
C38_Witness ==
    /\ last.op = "update_price"
    /\ last.addr = TRADE_APT
    /\ last.signer = USER2
    /\ last.args.price > 0
    /\ oracle_configs[TRADE_APT].exists
    /\ oracle_configs[TRADE_APT].keepers = <<TRADE_APT>>
    /\ oracle_configs[USER1].exists
    /\ is_keeper(oracle_configs[USER1], USER2)
    /\ last.result = Abort(ORACLE_E_UNAUTHORIZED)
    /\ oracle_configs = last.pre.oracle_configs

-----------------------------------------------------------------------------
\* C39: alert ids are per owner: the alerts of each owner are numbered 1, 2,
\* ... in the order of their creation, whatever other owners hold;
\* trigger_alert(user_addr, alert_id) leaves every alert unchanged but the
\* one with that id in user_addr's list, and cancel_alert of a caller leaves
\* every alert unchanged but the one with that id in the caller's own list,
\* so an alert of another owner with the same id is never touched.
C39_AlertIdsPerOwner ==
    /\ \A a \in Addr :
           /\ user_alerts[a].next_alert_id = Len(user_alerts[a].alerts) + 1
           /\ \A i \in DOMAIN user_alerts[a].alerts :
                  /\ user_alerts[a].alerts[i].alert_id = i
                  /\ user_alerts[a].alerts[i].owner = a
    /\ last.op \in {"trigger_alert", "cancel_alert"} =>
           LET target == IF last.op = "trigger_alert" THEN last.addr ELSE last.signer IN
           /\ \A a \in Addr \ {target} : user_alerts[a] = last.pre.user_alerts[a]
           /\ user_alerts[target].exists = last.pre.user_alerts[target].exists
           /\ user_alerts[target].next_alert_id
                  = last.pre.user_alerts[target].next_alert_id
           /\ Len(user_alerts[target].alerts) = Len(last.pre.user_alerts[target].alerts)
           /\ \A i \in DOMAIN last.pre.user_alerts[target].alerts :
                  last.pre.user_alerts[target].alerts[i].alert_id # last.order_id =>
                      user_alerts[target].alerts[i] = last.pre.user_alerts[target].alerts[i]

\* both owners hold an active alert 1; USER2 cancelled its own, and USER1's
\* alert 1 is active as before
C39_Witness ==
    /\ last.op = "cancel_alert"
    /\ last.signer = USER2
    /\ last.order_id = 1
    /\ last.result = Ok
    /\ Len(last.pre.user_alerts[USER1].alerts) = 1
    /\ last.pre.user_alerts[USER1].alerts[1].alert_id = 1
    /\ last.pre.user_alerts[USER1].alerts[1].is_active
    /\ last.pre.user_alerts[USER2].alerts[1].alert_id = 1
    /\ last.pre.user_alerts[USER2].alerts[1].is_active
    /\ ~user_alerts[USER2].alerts[1].is_active
    /\ user_alerts[USER1] = last.pre.user_alerts[USER1]

====
